---- MODULE Spec2Model ----
(***************************************************************************)
(* Model of the AI proofread plugin's orchestration core (m-proofreader.c) *)
(* as a state machine.  Each invocation started by m_proofreader_start     *)
(* owns one MProofreadContext; the GLib main context (the UI context)      *)
(* runs the content callback, the 800 ms timeout callback and the GTask    *)
(* completion callback; a worker thread runs the blocking remote call.     *)
(***************************************************************************)
EXTENDS Integers, Sequences, FiniteSets, TLC

\* Number of invocations (user actions) the model follows.
MaxInv == 1

Inv == 1..MaxInv

\* The C null pointer.
NULL == "NULL"

\* Texts the remote service may return, and error messages it may report.
Texts == {"fixed-a", "fixed-b"}
Errors == {"http-401"}

\* Argument tuples m_proofreader_start can be called with.
StartArgs ==
  [cnt_editor : {NULL, "editor"},
   prompt_id  : {NULL, "proofread-1"},
   prompts    : {NULL, "registry"},
   api_key    : {NULL, "sk-key"},
   model      : {"gpt-4o"}]

\* What e_content_editor_get_content_finish and
\* e_content_editor_util_steal_content_data can hand to the callback: an
\* error, no content hash, or a hash whose plain-text entry is missing
\* (NULL), the empty string, or text.
ContentResults ==
  {[kind |-> "error",  data |-> NULL],
   [kind |-> "nohash", data |-> NULL],
   [kind |-> "hash",   data |-> NULL],
   [kind |-> "hash",   data |-> ""],
   [kind |-> "hash",   data |-> "Helo wrld"]}

\* The three outcomes of one Remote Transform Client round trip.
RemoteOutcomes ==
  [kind : {"error"}, value : Errors] \cup
  [kind : {"empty"}, value : {NULL}] \cup
  [kind : {"text"},  value : Texts]

\* inv: the invocations of the orchestrator; fs: the three files under the
\* user's home directory; ext: the composer extension's private data and
\* what the configuration functions returned; ui: the action context, the
\* built action entries and the actions registered with the composer.
VARIABLES inv, fs, ext, ui

vars == <<inv, fs, ext, ui>>

\* The variables the orchestrator's handlers never touch.
cfgVars == <<fs, ext, ui>>

\* A context that has not been allocated.
NoContext ==
  [cnt_editor |-> NULL, prompt_id |-> NULL, prompts |-> NULL,
   api_key |-> NULL, model |-> NULL, composer |-> NULL,
   wait_dialog |-> FALSE, wait_timeout_id |-> 0]

NoArgs ==
  [cnt_editor |-> NULL, prompt_id |-> NULL, prompts |-> NULL,
   api_key |-> NULL, model |-> NULL]

\* State of one invocation before the user action.
\*   program state: context, mem, source, task, content, result, dialog
\*   collaborators: composer, alerts, inserted, notices, getContentCalls, calls
\*   clock:         expired (800 ms have passed since the timer was armed)
\*   history:       phase, args, delivered, frees, shows, destroys,
\*                  staleRemoves, fired, fast, late, early, onDead, handlerRuns,
\*                  overlap, handlerOn, remoteOn, uiOn, sent
\*   scheduling:    on (the context the running code is on; between steps
\*                  the worker has returned and the UI context is in its
\*                  main loop)
IdleInvocation ==
  [phase |-> "Idle", args |-> NoArgs,
   context |-> NoContext, mem |-> "unallocated", frees |-> 0,
   getContentCalls |-> 0,
   source |-> "none", task |-> "none", content |-> NULL,
   result |-> [error |-> NULL, text |-> NULL],
   calls |-> 0,
   dialog |-> "none", composer |-> "alive",
   alerts |-> <<>>, inserted |-> <<>>, notices |-> 0,
   expired |-> FALSE,
   shows |-> 0, destroys |-> 0, staleRemoves |-> 0, fired |-> "no",
   delivered |-> [kind |-> "none", data |-> NULL],
   fast |-> FALSE, late |-> FALSE, early |-> FALSE,
   onDead |-> 0, handlerRuns |-> 0, overlap |-> FALSE,
   on |-> "ui", handlerOn |-> {}, remoteOn |-> {}, uiOn |-> {},
   afterFree |-> {},
   sent |-> [prompt_id |-> NULL, prompts |-> NULL, api_key |-> NULL,
             model |-> NULL]]

(***************************************************************************)
(* Configuration state (m-config.c, m-msg-composer-extension.c)            *)
(***************************************************************************)

\* Pointers of the configuration and UI code: the null pointer, and a
\* pointer to the value x.
NullPtr == <<>>
Ptr(x) == <<x>>
Deref(p) == p[1]

\* A JSON document root: an array of elements, an object of members (a set
\* of <<key, value>> pairs), or a scalar.  NoRoot is the NULL root.
NoRoot == [t |-> "none", elems |-> <<>>, members |-> {}]
JsonArray(elems) == [t |-> "array", elems |-> elems, members |-> {}]
JsonObject(members) == [t |-> "object", elems |-> <<>>, members |-> members]
JsonString(v) == [t |-> "string", v |-> v]
JsonNumber(v) == [t |-> "number", v |-> v]
JsonNullValue == [t |-> "null", v |-> ""]

\* A JSON file: absent (or unreadable), not parseable, or parsed to a root.
\* An empty file parses successfully to the NULL root.
AbsentJson == [state |-> "absent", root |-> NoRoot]
MalformedJson == [state |-> "malformed", root |-> NoRoot]
EmptyJson == [state |-> "parsed", root |-> NoRoot]
JsonFile(root) == [state |-> "parsed", root |-> root]

\* A text file: absent (or unreadable), or a sequence of characters.  Words
\* are kept whole; the space and the newline are characters of their own.
AbsentText == [exists |-> FALSE, content |-> <<>>]
TextFile(content) == [exists |-> TRUE, content |-> content]

\* No file exists yet under the user's home directory.  config_original
\* remembers the config.json the run began with.
NoFiles ==
  [authinfo |-> AbsentText, prompts_json |-> AbsentJson,
   config_json |-> AbsentJson, config_dir |-> FALSE,
   config_original |-> AbsentJson]

\* No m_config_save_model call is under way.  pc is where a call stands
\* between its read of config.json and its write; model and config_obj are
\* its locals; edited, edit, before and written remember the external edit
\* made between the two, the file the write found and the file it left.
NoSave ==
  [pc |-> "idle", model |-> "", config_obj |-> {},
   edits |-> 0, edited |-> FALSE, edit |-> <<>>,
   before |-> AbsentJson, written |-> AbsentJson]

\* The extension's private data before m_msg_composer_extension_init, with
\* the history of what the configuration functions were asked and returned.
NoExtension ==
  [prompts |-> NullPtr, chatgpt_api_key |-> NullPtr, model |-> NullPtr,
   models |-> NullPtr,
   phase |-> "none", remoteCalls |-> 0,
   saved |-> NullPtr, saves |-> 0, loads |-> 0,
   keyFound |-> FALSE, promptCount |-> 0,
   composers |-> 0, selectedAt |-> 0, selectedInFlight |-> FALSE,
   save |-> NoSave]

\* No action callback has run yet.  A run leaves behind: the callback and
\* the composer it ran in, whether the context it read was freed, the model
\* of the composer's own context before and after, the model the callback
\* read or set, and whether the context of another composer was changed.
NoCallback ==
  [kind |-> "none", window |-> 0, freed |-> FALSE, ownBefore |-> NullPtr,
   ownAfter |-> NullPtr, model |-> NullPtr, otherChanged |-> FALSE]

\* No action context, no built entries, nothing registered, no dropdown
\* menu popped up; picked remembers how the invocation was started.  With
\* several composers open, windows holds each composer with its extension
\* instance and heap the action contexts allocated for them; last is the
\* last callback run, and crashed that a read of freed memory ended the
\* process.
NoUi ==
  [context |-> NullPtr, entries |-> NullPtr, built |-> FALSE,
   g_action_context |-> NullPtr, registered |-> <<>>,
   menu |-> <<>>, picked |-> [via |-> "none", k |-> 0, expect |-> NoArgs],
   windows |-> <<>>, heap |-> <<>>, last |-> NoCallback, crashed |-> FALSE]

Init ==
  /\ inv = [i \in Inv |-> IdleInvocation]
  /\ fs = NoFiles
  /\ ext = NoExtension
  /\ ui = NoUi

(***************************************************************************)
(* GLib / GTK primitives the handlers call                                 *)
(***************************************************************************)

\* g_timeout_add handing out the same source id every time.
SourceId_reused(i) == 1

\* g_timeout_add returns a fresh non-zero source id; one per invocation.
SourceId(i) == i

\* g_source_remove(id): destroys the source when it is still attached; a
\* call with the id of a source that is already gone is counted.
g_source_remove(s) ==
  IF s.source = "attached"
  THEN [s EXCEPT !.source = "removed", !.uiOn = @ \cup {s.on}]
  ELSE [s EXCEPT !.staleRemoves = @ + 1, !.uiOn = @ \cup {s.on}]

\* gtk_widget_destroy(context->wait_dialog)
gtk_widget_destroy(s) ==
  [s EXCEPT !.dialog = "destroyed", !.destroys = @ + 1,
            !.uiOn = @ \cup {s.on}]

\* GTK_IS_WINDOW(context->composer): TRUE for a live composer; the context
\* holds a bare pointer, so for a torn-down composer the macro reads freed
\* memory and either answer (b) can come out.
GTK_IS_WINDOW(s, b) == IF s.composer = "alive" THEN TRUE ELSE b

\* One more UI operation performed on a composer that is already torn down.
TouchComposer(s) ==
  IF s.composer = "destroyed" THEN [s EXCEPT !.onDead = @ + 1] ELSE s

\* An outcome is put on the composer; overlap remembers that the wait dialog
\* was on screen or its timer still attached at that moment.
Surface(s) ==
  [TouchComposer(s) EXCEPT
     !.overlap = @ \/ s.dialog = "shown" \/ s.source = "attached",
     !.uiOn = @ \cup {s.on}]

\* The code named who dereferences the context pointer it was given;
\* afterFree remembers the ones that did so when g_free(context) had
\* already run.
Access(s, who) ==
  [s EXCEPT !.afterFree = @ \cup (IF s.mem = "freed" THEN {who} ELSE {})]

(***************************************************************************)
(* m-proofreader.c                                                         *)
(***************************************************************************)

\* proofreader_wait_indicator_show with the window test inverted.
proofreader_wait_indicator_show_inverted(s, isWindow) ==
  LET f == [Access(s, "timer") EXCEPT !.source = "removed",
                     !.fired = IF s.composer = "alive" THEN "live" ELSE "dead"]
  IN IF s.context.composer = NULL \/ isWindow
     THEN f
     ELSE [f EXCEPT !.dialog = "shown", !.shows = @ + 1,
                    !.uiOn = @ \cup {s.on},
                    !.context.wait_dialog = TRUE,
                    !.context.wait_timeout_id = 0]

\* proofreader_wait_indicator_show that gives the request up once the wait
\* is over: the task is returned with a timeout error.
proofreader_wait_indicator_show_gives_up(s, isWindow) ==
  LET f == [Access(s, "timer") EXCEPT !.source = "removed",
                     !.fired = IF s.composer = "alive" THEN "live" ELSE "dead"]
  IN IF s.context.composer = NULL \/ ~isWindow
     THEN f
     ELSE [f EXCEPT !.dialog = "shown", !.shows = @ + 1,
                    !.uiOn = @ \cup {s.on},
                    !.context.wait_dialog = TRUE,
                    !.context.wait_timeout_id = 0,
                    !.task = "returned",
                    !.result = [error |-> "timeout", text |-> NULL]]

\* proofreader_wait_indicator_show that stores the dialog and keeps the
\* handle of the timer that has just fired.
proofreader_wait_indicator_show_keeps_id(s, isWindow) ==
  LET f == [Access(s, "timer") EXCEPT !.source = "removed",
                     !.fired = IF s.composer = "alive" THEN "live" ELSE "dead"]
  IN IF s.context.composer = NULL \/ ~isWindow
     THEN f
     ELSE [f EXCEPT !.dialog = "shown", !.shows = @ + 1,
                    !.uiOn = @ \cup {s.on},
                    !.context.wait_dialog = TRUE]

proofreader_wait_indicator_show(s, isWindow) ==
  LET f == [Access(s, "timer") EXCEPT !.source = "removed",
                     !.fired = IF s.composer = "alive" THEN "live" ELSE "dead"]
  IN IF s.context.composer = NULL \/ ~isWindow
     THEN f
     ELSE [f EXCEPT !.dialog = "shown", !.shows = @ + 1,
                    !.uiOn = @ \cup {s.on},
                    !.context.wait_dialog = TRUE,
                    !.context.wait_timeout_id = 0]

proofreader_wait_indicator_schedule(s, id) ==
  IF s.context.wait_timeout_id # 0 \/ s.context.wait_dialog
  THEN s
  ELSE [s EXCEPT !.context.wait_timeout_id = id, !.source = "attached",
                 !.uiOn = @ \cup {s.on}]

\* proofreader_wait_indicator_clear that forgets the handle without
\* removing the source.
proofreader_wait_indicator_clear_no_remove(s) ==
  LET t == [s EXCEPT !.context.wait_timeout_id = 0]
  IN IF t.context.wait_dialog
     THEN [gtk_widget_destroy(t) EXCEPT !.context.wait_dialog = FALSE]
     ELSE t

proofreader_wait_indicator_clear(s) ==
  LET t == IF s.context.wait_timeout_id # 0
           THEN [g_source_remove(s) EXCEPT !.context.wait_timeout_id = 0]
           ELSE s
  IN IF t.context.wait_dialog
     THEN [gtk_widget_destroy(t) EXCEPT !.context.wait_dialog = FALSE]
     ELSE t

\* The blocking round trip of the Remote Transform Client, as the caller
\* sees it: (NULL, error) on failure, (NULL, no error) for an empty result,
\* (text, no error) otherwise.
m_chatgpt_proofread(o) ==
  CASE o.kind = "error" -> [error |-> o.value, text |-> NULL]
    [] o.kind = "empty" -> [error |-> NULL, text |-> NULL]
    [] o.kind = "text"  -> [error |-> NULL, text |-> o.value]

\* The arguments proofread_task_thread passes to m_chatgpt_proofread besides
\* the content, read from the request's context.
RequestValues(context) ==
  [prompt_id |-> context.prompt_id, prompts |-> context.prompts,
   api_key |-> context.api_key, model |-> context.model]

\* proofread_task_thread that calls the service a second time on error.
proofread_task_thread_retry(s, o) ==
  [Access(s, "worker") EXCEPT !.calls = @ + (IF o.kind = "error" THEN 2 ELSE 1),
            !.result = m_chatgpt_proofread(o),
            !.remoteOn = @ \cup {s.on},
            !.sent = RequestValues(s.context),
            !.task = "returned",
            !.fast = ~s.expired]

\* proofread_task_thread that takes the wait indicator down itself once the
\* call is back.
proofread_task_thread_clears_indicator(s, o) ==
  [proofreader_wait_indicator_clear(Access(s, "worker")) EXCEPT
     !.calls = @ + 1,
     !.result = m_chatgpt_proofread(o),
     !.remoteOn = @ \cup {s.on},
     !.sent = RequestValues(s.context),
     !.task = "returned",
     !.fast = ~s.expired]

\* proofread_task_thread that frees the context itself once the call is
\* back, before the completion handler has run.
proofread_task_thread_frees(s, o) ==
  [proofreader_wait_indicator_clear(Access(s, "worker")) EXCEPT
     !.mem = "freed",
     !.frees = @ + 1,
     !.calls = @ + 1,
     !.result = m_chatgpt_proofread(o),
     !.remoteOn = @ \cup {s.on},
     !.sent = RequestValues(s.context),
     !.task = "returned",
     !.fast = ~s.expired]

\* Runs on the worker thread: one remote call, then g_task_return_*.
proofread_task_thread(s, o) ==
  [Access(s, "worker") EXCEPT !.calls = @ + 1,
            !.result = m_chatgpt_proofread(o),
            !.remoteOn = @ \cup {s.on},
            !.sent = RequestValues(s.context),
            !.task = "returned",
            !.fast = ~s.expired]

\* m_proofreader_context_new that takes the default model instead of the
\* caller's.
m_proofreader_context_new_default_model(a) ==
  [cnt_editor |-> a.cnt_editor, prompt_id |-> a.prompt_id,
   prompts |-> a.prompts, api_key |-> a.api_key, model |-> "gpt-4o",
   composer |-> "composer", wait_dialog |-> FALSE, wait_timeout_id |-> 0]

\* m_proofreader_context_new copies the strings (g_strdup) and takes a
\* reference on the prompts array, which nothing changes after its load.
m_proofreader_context_new(a) ==
  [cnt_editor |-> a.cnt_editor, prompt_id |-> a.prompt_id,
   prompts |-> a.prompts, api_key |-> a.api_key, model |-> a.model,
   composer |-> "composer", wait_dialog |-> FALSE, wait_timeout_id |-> 0]

m_proofreader_context_free(s) ==
  IF s.mem = "unallocated"
  THEN s
  ELSE [proofreader_wait_indicator_clear(s) EXCEPT !.mem = "freed",
                                                   !.frees = @ + 1]

show_error_alert(s, error_message) ==
  [Surface(s) EXCEPT !.alerts = Append(@, error_message)]

\* gtk_dialog_run: the handler blocks in a nested main loop until the
\* notice is dismissed.
show_no_response_dialog(s) ==
  [Surface(s) EXCEPT !.notices = @ + 1, !.phase = "NoResponseDialog"]

insert_proofread_content(s, content) ==
  [Surface(s) EXCEPT !.inserted = Append(@, content)]

\* The tail of proofread_task_completed: free the context, the invocation
\* is over.
TaskFinished(s, phase) ==
  [m_proofreader_context_free(s) EXCEPT !.phase = phase, !.task = "completed"]

\* proofread_task_completed whose branches are not exclusive: the text
\* branch is an "if", not an "else", so an error also reaches the sink.
proofread_task_completed_fallthrough(s) ==
  LET c == [proofreader_wait_indicator_clear(Access(s, "handler")) EXCEPT
              !.handlerRuns = @ + 1, !.early = ~s.expired,
              !.handlerOn = @ \cup {s.on}]
      error == c.result.error
      proofread_text == c.result.text
  IN IF error # NULL
     THEN TaskFinished(insert_proofread_content(show_error_alert(c, error),
                                                error), "Failed")
     ELSE IF proofread_text = NULL
          THEN show_no_response_dialog(c)
          ELSE TaskFinished(insert_proofread_content(c, proofread_text),
                            "Completing")

\* proofread_task_completed that reports an empty result as an error.
proofread_task_completed_empty_as_error(s) ==
  LET c == [proofreader_wait_indicator_clear(Access(s, "handler")) EXCEPT
              !.handlerRuns = @ + 1, !.early = ~s.expired,
              !.handlerOn = @ \cup {s.on}]
      error == c.result.error
      proofread_text == c.result.text
  IN IF error # NULL
     THEN TaskFinished(show_error_alert(c, error), "Failed")
     ELSE IF proofread_text = NULL
          THEN TaskFinished(show_error_alert(c, "no response"), "Failed")
          ELSE TaskFinished(insert_proofread_content(c, proofread_text),
                            "Completing")

\* proofread_task_completed that leaves the wait indicator to
\* m_proofreader_context_free at its end.
proofread_task_completed_clear_last(s) ==
  LET c == [Access(s, "handler") EXCEPT !.handlerRuns = @ + 1, !.early = ~s.expired,
              !.handlerOn = @ \cup {s.on}]
      error == c.result.error
      proofread_text == c.result.text
  IN IF error # NULL
     THEN TaskFinished(show_error_alert(c, error), "Failed")
     ELSE IF proofread_text = NULL
          THEN show_no_response_dialog(c)
          ELSE TaskFinished(insert_proofread_content(c, proofread_text),
                            "Completing")

proofread_task_completed(s) ==
  LET c == [proofreader_wait_indicator_clear(Access(s, "handler")) EXCEPT
              !.handlerRuns = @ + 1, !.early = ~s.expired,
              !.handlerOn = @ \cup {s.on}]
      error == c.result.error
      proofread_text == c.result.text
  IN IF error # NULL
     THEN TaskFinished(show_error_alert(c, error), "Failed")
     ELSE IF proofread_text = NULL
          THEN show_no_response_dialog(c)
          ELSE TaskFinished(insert_proofread_content(c, proofread_text),
                            "Completing")

\* start_proofread_task that runs the completion handler itself instead of
\* leaving it to the task.
start_proofread_task_inline(s, original_content, id) ==
  LET d == [s EXCEPT !.content = original_content]
      t == proofreader_wait_indicator_schedule(d, id)
  IN proofread_task_completed([t EXCEPT !.task = "running",
                                        !.phase = "Dispatched"])

\* start_proofread_task that arms the timer and makes the task but never
\* hands it to a thread.
start_proofread_task_never_run(s, original_content, id) ==
  LET d == [s EXCEPT !.content = original_content]
      t == proofreader_wait_indicator_schedule(d, id)
  IN [t EXCEPT !.phase = "Dispatched"]

\* g_task_run_in_thread hands the task function to a worker thread; the task
\* calls proofread_task_completed back on the main context.
start_proofread_task(s, original_content, id) ==
  LET d == [s EXCEPT !.content = original_content]
      t == proofreader_wait_indicator_schedule(d, id)
  IN [t EXCEPT !.task = "running", !.phase = "Dispatched"]

\* m_proofreader_content_ready_cb without the handed_off flag: the context
\* is freed at the end of the callback even when the task took it over.
m_proofreader_content_ready_cb_no_handoff(s0, r, id) ==
  LET s == [s0 EXCEPT !.delivered = r]
  IN IF r.kind = "error"
     THEN [m_proofreader_context_free(s) EXCEPT !.phase = "ContentError"]
     ELSE IF r.kind = "nohash"
     THEN [m_proofreader_context_free(s) EXCEPT !.phase = "ContentError"]
     ELSE LET content == r.data
          IN IF content # NULL
             THEN m_proofreader_context_free(
                    start_proofread_task(s, content, id))
             ELSE [m_proofreader_context_free(s) EXCEPT !.phase = "Empty"]

\* m_proofreader_content_ready_cb that tells the user when the content
\* could not be retrieved.
m_proofreader_content_ready_cb_alerts(s0, r, id) ==
  LET s == [s0 EXCEPT !.delivered = r]
  IN IF r.kind = "error"
     THEN [m_proofreader_context_free(show_error_alert(s, "no content"))
             EXCEPT !.phase = "ContentError"]
     ELSE IF r.kind = "nohash"
     THEN [m_proofreader_context_free(show_error_alert(s, "no content"))
             EXCEPT !.phase = "ContentError"]
     ELSE LET content == r.data
          IN IF content # NULL
             THEN start_proofread_task(s, content, id)
             ELSE [m_proofreader_context_free(s) EXCEPT !.phase = "Empty"]

m_proofreader_content_ready_cb(s0, r, id) ==
  LET s == [s0 EXCEPT !.delivered = r]
  IN IF r.kind = "error"
     THEN [m_proofreader_context_free(s) EXCEPT !.phase = "ContentError"]
     ELSE IF r.kind = "nohash"
     THEN [m_proofreader_context_free(s) EXCEPT !.phase = "ContentError"]
     ELSE LET content == r.data
          IN IF content # NULL
             THEN start_proofread_task(s, content, id)
             ELSE [m_proofreader_context_free(s) EXCEPT !.phase = "Empty"]

\* m_proofreader_start without the api_key precondition.
m_proofreader_start_no_key_check(s, a) ==
  IF a.cnt_editor = NULL \/ a.prompt_id = NULL \/ a.prompts = NULL
  THEN [s EXCEPT !.phase = "Aborted", !.args = a]
  ELSE [s EXCEPT !.phase = "AwaitingContent", !.args = a,
                 !.context = m_proofreader_context_new(a),
                 !.mem = "live",
                 !.getContentCalls = @ + 1]

m_proofreader_start(s, a) ==
  IF a.cnt_editor = NULL \/ a.prompt_id = NULL
     \/ a.prompts = NULL \/ a.api_key = NULL
  THEN [s EXCEPT !.phase = "Aborted", !.args = a]
  ELSE [s EXCEPT !.phase = "AwaitingContent", !.args = a,
                 !.context = m_proofreader_context_new(a),
                 !.mem = "live",
                 !.getContentCalls = @ + 1]

(***************************************************************************)
(* Actions                                                                 *)
(***************************************************************************)

\* A user action reaches m_proofreader_start.
Start(i) ==
  /\ inv[i].phase = "Idle"
  /\ \E a \in StartArgs : inv' = [inv EXCEPT ![i] = m_proofreader_start(@, a)]
  /\ UNCHANGED cfgVars

\* The content source calls back on the UI context.
ContentReady(i) ==
  /\ inv[i].phase = "AwaitingContent"
  /\ \E r \in ContentResults :
       inv' = [inv EXCEPT ![i] = m_proofreader_content_ready_cb(@, r, SourceId(i))]
  /\ UNCHANGED cfgVars

\* 800 ms pass after dispatch.
Tick(i) ==
  /\ inv[i].task # "none"
  /\ ~inv[i].expired
  /\ inv' = [inv EXCEPT ![i].expired = TRUE,
                        ![i].late = (inv[i].task = "running")]
  /\ UNCHANGED cfgVars

\* The main loop dispatches the expired timeout source.
WaitTimeout(i) ==
  /\ inv[i].source = "attached"
  /\ inv[i].expired
  /\ \E b \in BOOLEAN :
       inv' = [inv EXCEPT ![i] =
                 proofreader_wait_indicator_show(@, GTK_IS_WINDOW(@, b))]
  /\ UNCHANGED cfgVars

\* The worker thread runs the task function to its return.
WorkerRun(i) ==
  /\ inv[i].task = "running"
  /\ \E o \in RemoteOutcomes :
       inv' = [inv EXCEPT ![i] =
                 [proofread_task_thread([@ EXCEPT !.on = "worker"], o)
                    EXCEPT !.on = "ui"]]
  /\ UNCHANGED cfgVars

\* The main loop dispatches the task's completion.  The timeout source was
\* attached before the task was started and has the same priority, so an
\* expired timeout is dispatched first.
TaskCompleted(i) ==
  /\ inv[i].task = "returned"
  /\ inv[i].phase = "Dispatched"
  /\ ~(inv[i].source = "attached" /\ inv[i].expired)
  /\ inv' = [inv EXCEPT ![i] = proofread_task_completed(@)]
  /\ UNCHANGED cfgVars

\* The user dismisses the "no response" notice; gtk_dialog_run returns and
\* proofread_task_completed runs to its end.
DismissNoResponse(i) ==
  /\ inv[i].phase = "NoResponseDialog"
  /\ inv' = [inv EXCEPT ![i] = TaskFinished(@, "Empty")]
  /\ UNCHANGED cfgVars

\* The composer window is closed while the invocation is under way.
ComposerDestroy(i) ==
  /\ inv[i].phase \in {"AwaitingContent", "Dispatched"}
  /\ inv[i].composer = "alive"
  /\ inv' = [inv EXCEPT ![i].composer = "destroyed"]
  /\ UNCHANGED cfgVars

Next ==
  \E i \in Inv :
    \/ Start(i)
    \/ ContentReady(i)
    \/ Tick(i)
    \/ WaitTimeout(i)
    \/ WorkerRun(i)
    \/ TaskCompleted(i)
    \/ DismissNoResponse(i)
    \/ ComposerDestroy(i)

Spec == Init /\ [][Next]_vars

Terminal == {"Completing", "Failed", "Empty", "ContentError"}

(***************************************************************************)
(* Properties                                                              *)
(***************************************************************************)

\* The completion handler of invocation s has started.
HandlerRan(s) == s.handlerRuns > 0

\* The completion handler of invocation s has run to its end.
HandlerDone(s) == s.task = "completed"

\* C1: once the completion handler of a dispatched invocation has run, a
\* remote error has produced exactly one alert (carrying the error message)
\* and no insertion, and a returned text has produced exactly one insertion
\* of exactly that text and no alert; before the handler runs nothing has
\* been submitted or inserted.
C1_OneAlertOrOneInsertion ==
  \A i \in Inv :
    LET s == inv[i] IN
    /\ ~HandlerRan(s) => s.alerts = <<>> /\ s.inserted = <<>>
    /\ (HandlerDone(s) /\ s.result.error # NULL) =>
         s.alerts = <<s.result.error>> /\ s.inserted = <<>>
    /\ (HandlerDone(s) /\ s.result.error = NULL /\ s.result.text # NULL) =>
         s.inserted = <<s.result.text>> /\ s.alerts = <<>>

C1_Witness ==
  \E i \in Inv :
    /\ inv[i].phase = "Completing"
    /\ inv[i].inserted = <<"fixed-b">>
    /\ inv[i].alerts = <<>>

\* The content source delivered a content hash with no text in it: the
\* plain-text entry is missing or is the empty string.
EmptySourceText(s) ==
  s.delivered.kind = "hash" /\ s.delivered.data \in {NULL, ""}

\* C2: an invocation whose content callback received empty source text makes
\* no remote call, arms no timer, starts no task, and is in the Empty state
\* with its context freed.
C2_EmptySourceNeverDispatches ==
  \A i \in Inv :
    LET s == inv[i] IN
    EmptySourceText(s) =>
      /\ s.calls = 0
      /\ s.source = "none"
      /\ s.task = "none"
      /\ s.phase = "Empty"
      /\ s.mem = "freed"

\* C3: the timer source and the wait dialog are each released exactly once:
\* g_source_remove is never called for a source that is already gone, the
\* dialog is destroyed at most once, and after the completion handler has
\* started neither an attached timer nor a shown dialog remains.
C3_TimerAndDialogReleasedOnce ==
  \A i \in Inv :
    LET s == inv[i] IN
    /\ s.staleRemoves = 0
    /\ s.destroys <= 1
    /\ HandlerRan(s) =>
         /\ s.source # "attached"
         /\ s.dialog # "shown"
         /\ s.context.wait_timeout_id = 0
         /\ ~s.context.wait_dialog

\* C4: the context is freed at most once, it is live for as long as the
\* invocation is under way, and it has been freed exactly once when the
\* invocation has reached a terminal state.
C4_ContextFreedExactlyOnce ==
  \A i \in Inv :
    LET s == inv[i] IN
    /\ s.frees <= 1
    /\ s.phase \in {"AwaitingContent", "Dispatched", "NoResponseDialog"} =>
         s.mem = "live" /\ s.frees = 0
    /\ s.phase \in Terminal => s.mem = "freed" /\ s.frees = 1

C4_Witness ==
  \E i \in Inv :
    /\ inv[i].phase = "Empty"
    /\ inv[i].notices = 1
    /\ inv[i].frees = 1

\* C5 as stated: if the call was still in flight when the 800 ms expired,
\* the wait indicator has been shown by the time the completion handler runs.
C5_LateCallShowsIndicator ==
  \A i \in Inv :
    (inv[i].late /\ HandlerRan(inv[i])) => inv[i].shows >= 1

\* C5 amended: if the call was still in flight when the 800 ms expired and
\* the composer was still a live window when the timer callback ran, the
\* wait indicator has been shown by the time the completion handler runs.
C5_LateCallShowsIndicatorOnLiveComposer ==
  \A i \in Inv :
    (inv[i].late /\ HandlerRan(inv[i]) /\ inv[i].fired # "dead") =>
       inv[i].shows >= 1

C5_Witness ==
  \E i \in Inv :
    /\ inv[i].late
    /\ HandlerRan(inv[i])
    /\ inv[i].fired = "live"
    /\ inv[i].shows = 1

\* C6 as stated: if the worker returned from the remote call before the
\* 800 ms expired, the wait indicator is never shown.
C6_FastCallNeverShowsIndicator ==
  \A i \in Inv : inv[i].fast => inv[i].shows = 0

\* C6 amended: if the completion handler ran before the 800 ms expired, the
\* wait indicator is never shown, however much time passes afterwards.
C6_EarlyCompletionNeverShowsIndicator ==
  \A i \in Inv :
    (HandlerRan(inv[i]) /\ inv[i].early) =>
       inv[i].shows = 0 /\ inv[i].dialog = "none"

C6_Witness ==
  \E i \in Inv :
    /\ HandlerDone(inv[i])
    /\ inv[i].early
    /\ inv[i].expired
    /\ inv[i].shows = 0

\* m_proofreader_start was called without a prompt id, a prompts registry
\* or an API key.
MissingArgument(s) ==
  /\ s.phase # "Idle"
  /\ s.args.prompt_id = NULL \/ s.args.prompts = NULL \/ s.args.api_key = NULL

\* C7: a start with a missing prompt id, registry or API key creates no
\* context, requests no content, makes no remote call, arms no timer and
\* produces no alert, dialog or insertion.
C7_MissingArgumentAborts ==
  \A i \in Inv :
    LET s == inv[i] IN
    MissingArgument(s) =>
      /\ s.phase = "Aborted"
      /\ s.mem = "unallocated"
      /\ s.context = NoContext
      /\ s.getContentCalls = 0
      /\ s.calls = 0
      /\ s.task = "none"
      /\ s.source = "none"
      /\ s.dialog = "none"
      /\ s.alerts = <<>>
      /\ s.inserted = <<>>
      /\ s.notices = 0

C7_Witness ==
  \E i \in Inv :
    /\ inv[i].phase = "Aborted"
    /\ inv[i].args.cnt_editor # NULL
    /\ inv[i].args.prompt_id # NULL
    /\ inv[i].args.prompts # NULL
    /\ inv[i].args.api_key = NULL

\* C8: an invocation makes at most one remote call.
C8_AtMostOneRemoteCall ==
  \A i \in Inv : inv[i].calls <= 1

C8_Witness ==
  \E i \in Inv :
    /\ inv[i].phase = "Failed"
    /\ inv[i].calls = 1
    /\ inv[i].shows = 1

\* The remote call of invocation s returned successfully with no text.
EmptyResult(s) ==
  /\ s.task \in {"returned", "completed"}
  /\ s.result.error = NULL
  /\ s.result.text = NULL

C10_NoUiOnTornDownComposer ==
  \A i \in Inv : inv[i].onDead = 0

(***************************************************************************)
(* ~/.authinfo: parse_authinfo_line and m_config_load_api_key              *)
(***************************************************************************)

\* Number of lines of the authinfo files the model enumerates.
MaxLines == 2

SP == " "
NL == "\n"

\* The five fixed tokens of the credentials line.
AuthTokens == <<"machine", "api.openai.com", "login", "apikey", "password">>

\* Position of the first d in str, or 0.
RECURSIVE IndexOf(_, _, _)
IndexOf(str, d, k) ==
  IF k > Len(str) THEN 0
  ELSE IF str[k] = d THEN k
  ELSE IndexOf(str, d, k + 1)

\* g_strsplit of a non-empty remainder: one token per delimiter, plus one.
RECURSIVE SplitRest(_, _)
SplitRest(str, d) ==
  LET k == IndexOf(str, d, 1) IN
    IF k = 0 THEN <<str>>
    ELSE <<SubSeq(str, 1, k - 1)>> \o SplitRest(SubSeq(str, k + 1, Len(str)), d)

\* g_strsplit(str, d, -1): the empty string gives the empty vector; two
\* delimiters in a row, or one at either end, give an empty token.
g_strsplit(str, d) == IF str = <<>> THEN <<>> ELSE SplitRest(str, d)

\* The inverse of g_strsplit: the pieces with d between them.
RECURSIVE g_strjoinv(_, _)
g_strjoinv(d, pieces) ==
  IF pieces = <<>> THEN <<>>
  ELSE IF Len(pieces) = 1 THEN pieces[1]
  ELSE pieces[1] \o <<d>> \o g_strjoinv(d, Tail(pieces))

\* A line made of the words ws with one space between them.
WordsLine(ws) == g_strjoinv(SP, [k \in DOMAIN ws |-> <<ws[k]>>])

\* The lines the enumerated authinfo files are made of: an empty line, a
\* one-word line, the five fixed tokens alone, two credentials lines with
\* different keys, a credentials line with a seventh token, a line for
\* another host, the five tokens and a trailing space, a doubled space
\* after the first token, and a credentials line behind a leading space.
AuthLines ==
  {<<>>,
   WordsLine(<<"default">>),
   WordsLine(AuthTokens),
   WordsLine(AuthTokens \o <<"sk-one">>),
   WordsLine(AuthTokens \o <<"sk-two">>),
   WordsLine(AuthTokens \o <<"sk-three", "port">>),
   WordsLine(<<"machine", "example.org", "login", "apikey", "password", "sk-other">>),
   WordsLine(AuthTokens) \o <<SP>>,
   <<"machine", SP>> \o <<SP>> \o Tail(Tail(WordsLine(AuthTokens \o <<"sk-four">>))),
   <<SP>> \o WordsLine(AuthTokens \o <<"sk-five">>)}

\* The authinfo files: absent, or up to MaxLines lines joined by newlines.
AuthFiles ==
  {AbsentText} \cup
  {TextFile(g_strjoinv(NL, ls)) :
     ls \in UNION {[1..n -> AuthLines] : n \in 0..MaxLines}}

\* parse_authinfo_line accepting a line of exactly six tokens only.
parse_authinfo_line_exactly_six(line) ==
  IF line = <<>> THEN NullPtr
  ELSE LET tokens == g_strsplit(line, SP)
           token_count == Len(tokens)
       IN IF /\ token_count = 6
             /\ \A k \in 1..5 : tokens[k] = <<AuthTokens[k]>>
          THEN Ptr(tokens[6])
          ELSE NullPtr

\* parse_authinfo_line: the sixth token of a line whose first five tokens
\* are the fixed ones, or NULL.
parse_authinfo_line(line) ==
  IF line = <<>> THEN NullPtr
  ELSE LET tokens == g_strsplit(line, SP)
           token_count == Len(tokens)
       IN IF /\ token_count >= 6
             /\ \A k \in 1..5 : tokens[k] = <<AuthTokens[k]>>
          THEN Ptr(tokens[6])
          ELSE NullPtr

\* The loop of m_config_load_api_key from line i on: the first line that
\* parses to a key ends it.
RECURSIVE ScanLines(_, _)
ScanLines(lines, i) ==
  IF i > Len(lines) THEN NullPtr
  ELSE LET api_key == parse_authinfo_line(lines[i]) IN
         IF api_key # NullPtr THEN api_key ELSE ScanLines(lines, i + 1)

\* The loop without its break: a later credentials line replaces the key.
RECURSIVE ScanLinesNoBreak(_, _, _)
ScanLinesNoBreak(lines, i, found) ==
  IF i > Len(lines) THEN found
  ELSE LET api_key == parse_authinfo_line(lines[i]) IN
         ScanLinesNoBreak(lines, i + 1,
                          IF api_key # NullPtr THEN api_key ELSE found)

\* m_config_load_api_key without the break of its loop.
m_config_load_api_key_no_break(file) ==
  IF file.exists
  THEN ScanLinesNoBreak(g_strsplit(file.content, NL), 1, NullPtr)
  ELSE NullPtr

\* m_config_load_api_key: NULL when the file cannot be read.
m_config_load_api_key(file) ==
  IF file.exists THEN ScanLines(g_strsplit(file.content, NL), 1) ELSE NullPtr

\* A caller loads the API key from ~/.authinfo.
LoadApiKey ==
  /\ ext.phase = "none"
  /\ ext' = [ext EXCEPT !.chatgpt_api_key = m_config_load_api_key(fs.authinfo),
                        !.phase = "key-loaded"]
  /\ UNCHANGED <<inv, fs, ui>>

KeyInit ==
  /\ inv = [i \in Inv |-> IdleInvocation]
  /\ fs \in {[NoFiles EXCEPT !.authinfo = f] : f \in AuthFiles}
  /\ ext = NoExtension
  /\ ui = NoUi

KeyNext == LoadApiKey

KeySpec == KeyInit /\ [][KeyNext]_vars

\* The text "machine api.openai.com login apikey password " a credentials
\* line starts with.
AuthPrefix == WordsLine(AuthTokens) \o <<SP>>

\* The line has the shape of the credentials pattern.
MatchesPattern(line) ==
  /\ Len(line) >= Len(AuthPrefix)
  /\ SubSeq(line, 1, Len(AuthPrefix)) = AuthPrefix

\* The value of a credentials line: what follows the prefix, up to the next
\* space or the end of the line.
ValueToken(line) ==
  LET rest == SubSeq(line, Len(AuthPrefix) + 1, Len(line))
      k == IndexOf(rest, SP, 1)
  IN IF k = 0 THEN rest ELSE SubSeq(rest, 1, k - 1)

\* The lines of the authinfo file in file order.
AuthFileLines == g_strsplit(fs.authinfo.content, NL)

\* C13: m_config_load_api_key returns the value token of the first line of
\* ~/.authinfo that matches "machine api.openai.com login apikey password
\* <value>", and nothing when the file is absent or no line matches; empty
\* lines and lines of fewer than six tokens are skipped.
C13_FirstMatchingLineGivesKey ==
  ext.phase = "key-loaded" =>
    LET ls == AuthFileLines
        hits == {k \in 1..Len(ls) : MatchesPattern(ls[k])}
    IN /\ (~fs.authinfo.exists \/ hits = {}) => ext.chatgpt_api_key = NullPtr
       /\ (fs.authinfo.exists /\ hits # {}) =>
            \E k \in hits :
              /\ \A j \in hits : k <= j
              /\ ext.chatgpt_api_key = Ptr(ValueToken(ls[k]))
       /\ \A k \in 1..Len(ls) :
            (ls[k] = <<>> \/ Len(g_strsplit(ls[k], SP)) < 6) => k \notin hits

\* A file whose second line is a credentials line with another key than
\* its first line's has been loaded, behind a skipped first line or not.
C13_Witness ==
  /\ ext.phase = "key-loaded"
  /\ Len(AuthFileLines) = 2
  /\ MatchesPattern(AuthFileLines[1])
  /\ MatchesPattern(AuthFileLines[2])
  /\ ValueToken(AuthFileLines[1]) # ValueToken(AuthFileLines[2])
  /\ ext.chatgpt_api_key = Ptr(ValueToken(AuthFileLines[1]))

\* The line has exactly six tokens, the first five being the fixed ones.
ExactlySixTokens(line) ==
  LET tokens == g_strsplit(line, SP) IN
    /\ Len(tokens) = 6
    /\ \A k \in 1..5 : tokens[k] = <<AuthTokens[k]>>

\* The line has at least six tokens, the first five being the fixed ones.
AtLeastSixTokens(line) ==
  LET tokens == g_strsplit(line, SP) IN
    /\ Len(tokens) >= 6
    /\ \A k \in 1..5 : tokens[k] = <<AuthTokens[k]>>

\* The key a file yields when only the lines in the set keep (positions)
\* are read and every other line is ignored.
KeyOfLines(ls, keep) ==
  IF keep = {} THEN NullPtr
  ELSE LET k == CHOOSE k \in keep : \A j \in keep : k <= j
       IN Ptr(g_strsplit(ls[k], SP)[6])

\* C14: only lines of exactly six space-separated tokens, the first five
\* being machine, api.openai.com, login, apikey, password, are recognized;
\* every other line, one with further tokens behind the sixth included, is
\* ignored.
C14_OnlySixTokenLinesRecognized ==
  ext.phase = "key-loaded" =>
    LET ls == AuthFileLines IN
      ext.chatgpt_api_key =
        KeyOfLines(ls, {k \in 1..Len(ls) : ExactlySixTokens(ls[k])})

\* C14 as the code has it: lines of at least six tokens with the five fixed
\* ones first are recognized, their sixth token is the key and what follows
\* it is dropped; every other line is ignored.
C14_AtLeastSixTokenLinesRecognized ==
  ext.phase = "key-loaded" =>
    LET ls == AuthFileLines IN
      ext.chatgpt_api_key =
        KeyOfLines(ls, {k \in 1..Len(ls) : AtLeastSixTokens(ls[k])})

\* A file whose only credentials line has seven tokens has been loaded and
\* its sixth token has come back.
C14_Witness ==
  /\ ext.phase = "key-loaded"
  /\ \E k \in 1..Len(AuthFileLines) :
       /\ AtLeastSixTokens(AuthFileLines[k])
       /\ Len(g_strsplit(AuthFileLines[k], SP)) > 6
       /\ \A j \in 1..Len(AuthFileLines) : ~ExactlySixTokens(AuthFileLines[j])
       /\ ext.chatgpt_api_key = Ptr(g_strsplit(AuthFileLines[k], SP)[6])

(***************************************************************************)
(* config.json: m_config_load_model and m_config_save_model                *)
(***************************************************************************)

\* Number of m_config_save_model calls the model follows.
MaxSaves == 2

M_CONFIG_DEFAULT_MODEL == "gpt-4o"

\* Model identifiers a caller saves.
SaveModels == {"gpt-4o", "o1-mini", ""}

\* A root that is neither an array nor an object.
JsonScalarRoot == [t |-> "value", elems |-> <<>>, members |-> {}]

\* What the "model" member of an existing configuration object can be: not
\* there, a string, the empty string, a number, null.
ModelMembers ==
  {{},
   {<<"model", JsonString("gpt-4o-mini")>>},
   {<<"model", JsonString("")>>},
   {<<"model", JsonNumber("4")>>},
   {<<"model", JsonNullValue>>}}

\* The other members of an existing configuration object.
OtherMembers ==
  {{},
   {<<"theme", JsonString("dark")>>},
   {<<"theme", JsonString("dark")>>, <<"max_tokens", JsonNumber("256")>>}}

\* The config.json files: absent, unparseable, empty, with a root that is
\* no object, or an object.
ConfigFiles ==
  {AbsentJson, MalformedJson, EmptyJson,
   JsonFile(JsonArray(<<>>)), JsonFile(JsonScalarRoot)} \cup
  {JsonFile(JsonObject(m \cup o)) : m \in ModelMembers, o \in OtherMembers}

\* How the file system answers m_config_save_model.
SaveOutcomes == {"ok", "mkdir-fails", "write-fails"}

\* json_parser_load_from_file: TRUE when the file was read and parsed.
json_parser_load_from_file(file) == file.state = "parsed"

JSON_NODE_HOLDS_ARRAY(root) == root.t = "array"
JSON_NODE_HOLDS_OBJECT(root) == root.t = "object"

json_object_has_member(obj, name) == \E p \in obj : p[1] = name

\* json_object_get_string_member: NULL for a missing member and for a null
\* or a non-string value.
json_object_get_string_member(obj, name) ==
  IF ~json_object_has_member(obj, name) THEN NullPtr
  ELSE LET node == (CHOOSE p \in obj : p[1] = name)[2] IN
         IF node.t = "string" THEN Ptr(node.v) ELSE NullPtr

json_object_remove_member(obj, name) == {p \in obj : p[1] # name}

json_object_set_string_member(obj, name, value) ==
  json_object_remove_member(obj, name) \cup {<<name, JsonString(value)>>}

\* m_config_load_model with no default behind it.
m_config_load_model_no_default(file) ==
  IF json_parser_load_from_file(file) /\ JSON_NODE_HOLDS_OBJECT(file.root)
     /\ json_object_has_member(file.root.members, "model")
  THEN json_object_get_string_member(file.root.members, "model")
  ELSE NullPtr

\* m_config_load_model: the string under "model", or the default.
m_config_load_model(file) ==
  LET model ==
        IF json_parser_load_from_file(file) /\ JSON_NODE_HOLDS_OBJECT(file.root)
           /\ json_object_has_member(file.root.members, "model")
        THEN json_object_get_string_member(file.root.members, "model")
        ELSE NullPtr
  IN IF model = NullPtr THEN Ptr(M_CONFIG_DEFAULT_MODEL) ELSE model

\* m_config_save_model starting from a new object whatever the file holds.
m_config_save_model_fresh_object(f, model, io) ==
  IF io = "mkdir-fails" THEN [files |-> f, success |-> FALSE]
  ELSE IF io = "write-fails"
  THEN [files |-> [f EXCEPT !.config_dir = TRUE], success |-> FALSE]
  ELSE [files |-> [f EXCEPT !.config_dir = TRUE,
                            !.config_json =
                              JsonFile(JsonObject(
                                json_object_set_string_member({}, "model", model)))],
        success |-> TRUE]

\* m_config_save_model leaving a "model" member the file already has.
m_config_save_model_keep_existing(f, model, io) ==
  IF io = "mkdir-fails" THEN [files |-> f, success |-> FALSE]
  ELSE
    LET existing == f.config_json
        config_obj ==
          IF json_parser_load_from_file(existing)
             /\ JSON_NODE_HOLDS_OBJECT(existing.root)
          THEN existing.root.members
          ELSE {}
        updated ==
          IF json_object_has_member(config_obj, "model")
          THEN config_obj
          ELSE json_object_set_string_member(config_obj, "model", model)
    IN IF io = "write-fails"
       THEN [files |-> [f EXCEPT !.config_dir = TRUE], success |-> FALSE]
       ELSE [files |-> [f EXCEPT !.config_dir = TRUE,
                                 !.config_json = JsonFile(JsonObject(updated))],
             success |-> TRUE]

\* m_config_save_model(model), model not NULL: make the directory, take the
\* existing root object or a new one, replace its "model" member, write
\* every member back.  Returns the files and the gboolean.
m_config_save_model(f, model, io) ==
  IF io = "mkdir-fails" THEN [files |-> f, success |-> FALSE]
  ELSE
    LET existing == f.config_json
        config_obj ==
          IF json_parser_load_from_file(existing)
             /\ JSON_NODE_HOLDS_OBJECT(existing.root)
          THEN existing.root.members
          ELSE {}
        updated ==
          json_object_set_string_member(
            IF json_object_has_member(config_obj, "model")
            THEN json_object_remove_member(config_obj, "model")
            ELSE config_obj,
            "model", model)
    IN IF io = "write-fails"
       THEN [files |-> [f EXCEPT !.config_dir = TRUE], success |-> FALSE]
       ELSE [files |-> [f EXCEPT !.config_dir = TRUE,
                                 !.config_json = JsonFile(JsonObject(updated))],
             success |-> TRUE]

\* A caller saves a model selection.
SaveModel ==
  /\ ext.saves < MaxSaves
  /\ \E m \in SaveModels, io \in SaveOutcomes :
       LET r == m_config_save_model(fs, m, io) IN
         /\ fs' = r.files
         /\ ext' = [ext EXCEPT !.saves = @ + 1,
                               !.phase = "model-saved",
                               !.saved = IF r.success THEN Ptr(m) ELSE @]
  /\ UNCHANGED <<inv, ui>>

\* A caller loads the model selection.
LoadModel ==
  /\ ext.phase # "model-loaded"
  /\ ext' = [ext EXCEPT !.model = m_config_load_model(fs.config_json),
                        !.phase = "model-loaded",
                        !.loads = @ + 1]
  /\ UNCHANGED <<inv, fs, ui>>

ConfigInit ==
  /\ inv = [i \in Inv |-> IdleInvocation]
  /\ fs \in {[NoFiles EXCEPT !.config_json = f, !.config_original = f,
                             !.config_dir = (f # AbsentJson)] :
               f \in ConfigFiles}
  /\ ext = NoExtension
  /\ ui = NoUi

ConfigNext == SaveModel \/ LoadModel

ConfigSpec == ConfigInit /\ [][ConfigNext]_vars

\* C15: a model saved with m_config_save_model is what the next
\* m_config_load_model returns, whatever config.json held before the save.
C15_SaveThenLoadReturnsSaved ==
  (ext.phase = "model-loaded" /\ ext.saved # NullPtr) => ext.model = ext.saved

\* A model has been saved over a file that was no object, or that held
\* another model, and has been loaded back.
C15_Witness ==
  /\ ext.phase = "model-loaded"
  /\ ext.saved = Ptr("o1-mini")
  /\ ext.model = Ptr("o1-mini")
  /\ \/ fs.config_original = MalformedJson
     \/ <<"model", JsonString("gpt-4o-mini")>> \in fs.config_original.root.members

\* The members of a configuration file other than "model"; a file that
\* does not parse to an object has none.
OtherKeys(file) ==
  IF json_parser_load_from_file(file) /\ JSON_NODE_HOLDS_OBJECT(file.root)
  THEN {p \in file.root.members : p[1] # "model"}
  ELSE {}

\* C16: m_config_save_model changes the "model" key only: after any
\* sequence of saves the other keys of config.json are the ones the file
\* had at the start, with their values.
C16_OtherKeysPreserved ==
  /\ OtherKeys(fs.config_json) = OtherKeys(fs.config_original)
  /\ fs.config_json # fs.config_original =>
       /\ ext.saved # NullPtr
       /\ fs.config_json.root.members =
            OtherKeys(fs.config_original)
              \cup {<<"model", JsonString(Deref(ext.saved))>>}

\* Two saves have been made over a file with two other keys and the model
\* in the file is no longer the one the file began with.
C16_Witness ==
  /\ ext.saves >= 2
  /\ ext.saved # NullPtr
  /\ Cardinality(OtherKeys(fs.config_original)) = 2
  /\ <<"model", JsonString("gpt-4o-mini")>> \in fs.config_original.root.members
  /\ <<"model", JsonString("gpt-4o-mini")>> \notin fs.config_json.root.members

\* The file holds an object whose "model" member is a string.
HasUsableModel(file) ==
  /\ file.state = "parsed"
  /\ file.root.t = "object"
  /\ \E p \in file.root.members : p[1] = "model" /\ p[2].t = "string"

\* C17: m_config_load_model returns the persisted model, or the default
\* "gpt-4o" when config.json is absent, unparseable, no object or without a
\* usable "model" key; it never returns NULL.
C17_LoadModelReturnsPersistedOrDefault ==
  ext.phase = "model-loaded" =>
    /\ ext.model # NullPtr
    /\ HasUsableModel(fs.config_json) =>
         <<"model", JsonString(Deref(ext.model))>> \in fs.config_json.root.members
    /\ ~HasUsableModel(fs.config_json) => ext.model = Ptr("gpt-4o")

\* The default has come back for a file that is an object whose "model"
\* member is no string.
C17_Witness ==
  /\ ext.phase = "model-loaded"
  /\ ext.saves = 0
  /\ <<"model", JsonNumber("4")>> \in fs.config_json.root.members
  /\ ext.model = Ptr("gpt-4o")

(***************************************************************************)
(* prompts.json and the action entries: m_config_load_prompts,             *)
(* m_ui_action_context_new, m_ui_build_action_entries                      *)
(***************************************************************************)

\* Number of elements of the prompt arrays, and of models in the model
\* lists, the model enumerates.
MaxPrompts == 2
MaxModels == 2

\* Elements of a prompts.json array: two objects with "name" and "prompt",
\* two objects with "id" and "text" instead, an object without "prompt", an
\* object whose "name" is a number, an element that is no object, and an
\* object whose "name" and "prompt" are empty strings.
PromptElements ==
  {JsonObject({<<"name", JsonString("fix")>>, <<"prompt", JsonString("Fix the text")>>}),
   JsonObject({<<"name", JsonString("short")>>, <<"prompt", JsonString("Shorten")>>}),
   JsonObject({<<"id", JsonString("proofread-1")>>, <<"text", JsonString("Proofread")>>}),
   JsonObject({<<"id", JsonString("shorten")>>, <<"text", JsonString("Shorten")>>}),
   JsonObject({<<"name", JsonString("tone")>>}),
   JsonObject({<<"name", JsonNumber("7")>>, <<"prompt", JsonString("Seven")>>}),
   JsonScalarRoot,
   JsonObject({<<"name", JsonString("")>>, <<"prompt", JsonString("")>>})}

\* The prompts.json files: absent, unparseable, empty, with a root that is
\* no array, or an array of up to MaxPrompts elements.
PromptFiles ==
  {AbsentJson, MalformedJson, EmptyJson,
   JsonFile(JsonObject({<<"name", JsonString("fix")>>})),
   JsonFile(JsonScalarRoot)} \cup
  {JsonFile(JsonArray(es)) :
     es \in UNION {[1..n -> PromptElements] : n \in 0..MaxPrompts}}

\* Model identifiers and the lists of them a context is made with.
ModelIds == {"gpt-4o", "gpt-4o-mini"}
ModelLists == UNION {[1..n -> ModelIds] : n \in 0..MaxModels}

\* m_config_load_prompts returning NULL where the code makes a new array.
m_config_load_prompts_null_on_error(file) ==
  IF json_parser_load_from_file(file) /\ JSON_NODE_HOLDS_ARRAY(file.root)
  THEN Ptr(file.root.elems)
  ELSE NullPtr

\* The element is an object with string members "name" and "prompt", or
\* with string members "id" and "text".
WellFormedPrompt(e) ==
  /\ e.t = "object"
  /\ \/ /\ json_object_get_string_member(e.members, "name") # NullPtr
        /\ json_object_get_string_member(e.members, "prompt") # NullPtr
     \/ /\ json_object_get_string_member(e.members, "id") # NullPtr
        /\ json_object_get_string_member(e.members, "text") # NullPtr

\* m_config_load_prompts dropping the elements that are not well formed.
m_config_load_prompts_skip_malformed(file) ==
  IF json_parser_load_from_file(file) /\ JSON_NODE_HOLDS_ARRAY(file.root)
  THEN Ptr(SelectSeq(file.root.elems, WellFormedPrompt))
  ELSE Ptr(<<>>)

\* m_config_load_prompts: the root array of the file as it is, or a new
\* empty array.
m_config_load_prompts(file) ==
  IF json_parser_load_from_file(file) /\ JSON_NODE_HOLDS_ARRAY(file.root)
  THEN Ptr(file.root.elems)
  ELSE Ptr(<<>>)

\* m_ui_action_context_new(prompts, api_key, model, models).
m_ui_action_context_new(prompts, api_key, model, models) ==
  [prompts |-> prompts,
   api_key |-> api_key,
   model   |-> IF model # NullPtr THEN model ELSE Ptr(M_CONFIG_DEFAULT_MODEL),
   models  |-> models]

\* json_array_get_object_element: NULL for an element that is no object.
json_array_get_object_element(prompts, i) ==
  IF prompts[i].t = "object" THEN Ptr(prompts[i].members) ELSE NullPtr

\* json_object_get_string_member on a JsonObject pointer: NULL for NULL.
StringMember(prompt, name) ==
  IF prompt = NullPtr THEN NullPtr
  ELSE json_object_get_string_member(Deref(prompt), name)

\* What "%s" prints for a string pointer: glibc prints "(null)" for NULL.
FormatString(p) == IF p = NullPtr THEN "(null)" ELSE Deref(p)

\* The check mark and space in front of the current model's label.
CheckMark == "[v] "

\* An EUIActionEntry: name, label, tooltip and the activate callback.
Entry(name, label, tooltip, activate) ==
  [name |-> name, label |-> label, tooltip |-> tooltip, activate |-> activate]

create_prompt_entry(prompt) ==
  LET name == StringMember(prompt, "name")
      prompt_text == StringMember(prompt, "prompt")
  IN Entry(Ptr("ai-proofread-" \o FormatString(name)), name, prompt_text,
           "action_proofread_cb")

create_menu_entry == Entry(Ptr("ai-menu"), Ptr("AI"), Ptr("AI tools"), "none")

create_dropdown_entry ==
  Entry(Ptr("ai-proofread-dropdown"), Ptr("AI _Proofread"), Ptr("AI Proofread"),
        "action_dropdown_cb")

create_model_menu_entry(current_model) ==
  Entry(Ptr("ai-model-menu"),
        Ptr("Model (" \o (IF current_model # NullPtr THEN Deref(current_model)
                          ELSE M_CONFIG_DEFAULT_MODEL) \o ")"),
        Ptr("Select AI model"), "none")

create_model_entry(model_id, is_current) ==
  Entry(Ptr("ai-model-" \o model_id),
        IF is_current THEN Ptr(CheckMark \o model_id) ELSE Ptr(model_id),
        Ptr("Use " \o model_id \o " model"),
        "action_select_model_cb")

\* validate_entries leaving every field as it finds it.
validate_entries_no_backfill(entries) == entries

\* validate_entries: a NULL name, label or tooltip is replaced; the entry
\* at C index i is entries[i + 1].
validate_entries(entries) ==
  [k \in DOMAIN entries |->
     [entries[k] EXCEPT
        !.name = IF @ = NullPtr
                 THEN Ptr("ai-proofread-missing-" \o ToString(k - 1)) ELSE @,
        !.label = IF @ = NullPtr THEN Ptr("(no label)") ELSE @,
        !.tooltip = IF @ = NullPtr THEN Ptr("") ELSE @]]

\* The action names build_eui_xml puts into the AI menu, the Model submenu
\* and the two toolbars.
build_eui_xml(prompts, models, current_model) ==
  [menu |-> [k \in DOMAIN prompts |->
               "ai-proofread-" \o
                 FormatString(StringMember(json_array_get_object_element(prompts, k),
                                           "name"))],
   model_menu |-> [k \in DOMAIN models |-> "ai-model-" \o models[k]],
   toolbar |-> <<"ai-proofread-dropdown", "ai-proofread-dropdown">>]

\* The entries of the first loop: one per array element.
PromptEntries(prompts) ==
  [k \in DOMAIN prompts |->
     create_prompt_entry(json_array_get_object_element(prompts, k))]

\* The entries of the last loop: one per model of the context.
ModelEntries(action_context) ==
  [k \in DOMAIN action_context.models |->
     create_model_entry(action_context.models[k],
                        Ptr(action_context.models[k]) = action_context.model)]

\* m_ui_build_action_entries without the parent AI menu entry.
m_ui_build_action_entries_no_menu(prompts, action_context) ==
  IF prompts = NullPtr THEN NullPtr
  ELSE IF Len(Deref(prompts)) = 0 THEN NullPtr
  ELSE
    LET n_prompts == Len(Deref(prompts))
        n_models == Len(action_context.models)
        entries ==
          PromptEntries(Deref(prompts))
            \o <<create_dropdown_entry>>
            \o <<create_model_menu_entry(action_context.model)>>
            \o ModelEntries(action_context)
    IN Ptr([count |-> n_prompts,
            total_count |-> n_prompts + 2 + n_models,
            entries |-> validate_entries(entries),
            eui_xml |-> build_eui_xml(Deref(prompts), action_context.models,
                                      action_context.model)])

\* m_ui_build_action_entries: NULL for no prompts; else the prompt entries,
\* ai-menu, the dropdown, ai-model-menu and the model entries, validated.
m_ui_build_action_entries(prompts, action_context) ==
  IF prompts = NullPtr THEN NullPtr
  ELSE IF Len(Deref(prompts)) = 0 THEN NullPtr
  ELSE
    LET n_prompts == Len(Deref(prompts))
        n_models == Len(action_context.models)
        entries ==
          PromptEntries(Deref(prompts))
            \o <<create_menu_entry>>
            \o <<create_dropdown_entry>>
            \o <<create_model_menu_entry(action_context.model)>>
            \o ModelEntries(action_context)
    IN Ptr([count |-> n_prompts,
            total_count |-> n_prompts + 3 + n_models,
            entries |-> validate_entries(entries),
            eui_xml |-> build_eui_xml(Deref(prompts), action_context.models,
                                      action_context.model)])

\* A caller loads the prompt registry from prompts.json.
LoadPrompts ==
  /\ ext.phase = "none"
  /\ ext' = [ext EXCEPT !.prompts = m_config_load_prompts(fs.prompts_json),
                        !.phase = "prompts-loaded"]
  /\ UNCHANGED <<inv, fs, ui>>

\* A caller makes an action context for the loaded registry.
NewActionContext ==
  /\ ext.phase = "prompts-loaded"
  /\ ui.context = NullPtr
  /\ \E api_key \in {Ptr("sk-key")},
        model \in {NullPtr} \cup {Ptr(m) : m \in ModelIds},
        models \in ModelLists :
       ui' = [ui EXCEPT !.context =
                Ptr(m_ui_action_context_new(ext.prompts, api_key, model, models))]
  /\ UNCHANGED <<inv, fs, ext>>

\* A caller builds the action entries for the registry and the context.
BuildActionEntries ==
  /\ ui.context # NullPtr
  /\ ~ui.built
  /\ ui' = [ui EXCEPT !.entries =
                        m_ui_build_action_entries(ext.prompts, Deref(ui.context)),
                      !.built = TRUE]
  /\ UNCHANGED <<inv, fs, ext>>

UiInit ==
  /\ inv = [i \in Inv |-> IdleInvocation]
  /\ fs \in {[NoFiles EXCEPT !.prompts_json = f] : f \in PromptFiles}
  /\ ext = NoExtension
  /\ ui = NoUi

UiNext == LoadPrompts \/ NewActionContext \/ BuildActionEntries

UiSpec == UiInit /\ [][UiNext]_vars

\* N and M of a build: the length of the loaded prompt array and the
\* number of models of the action context.
NumPrompts == Len(Deref(ext.prompts))
NumModels == Len(Deref(ui.context).models)

\* The entries of the built action set.
BuiltEntries == Deref(ui.entries).entries

\* C11: for a prompt array of length N >= 0 and M models,
\* m_ui_build_action_entries yields exactly N + M + 2 actions.
C11_BuildYieldsNPlusMPlusTwo ==
  ui.built =>
    /\ ui.entries # NullPtr
    /\ Len(BuiltEntries) = NumPrompts + NumModels + 2

\* C11 as the code has it: for N >= 1 the build yields N + M + 3 actions,
\* the N prompt actions, ai-menu, ai-proofread-dropdown, ai-model-menu and
\* the M model actions, in this order; for N = 0 it yields no action set.
C11_BuildYieldsNPlusMPlusThree ==
  ui.built =>
    IF NumPrompts = 0 THEN ui.entries = NullPtr
    ELSE
      /\ ui.entries # NullPtr
      /\ Len(BuiltEntries) = NumPrompts + NumModels + 3
      /\ Deref(ui.entries).total_count = Len(BuiltEntries)
      /\ Deref(ui.entries).count = NumPrompts
      /\ \A k \in 1..NumPrompts :
           BuiltEntries[k].activate = "action_proofread_cb"
      /\ BuiltEntries[NumPrompts + 1].name = Ptr("ai-menu")
      /\ BuiltEntries[NumPrompts + 2].name = Ptr("ai-proofread-dropdown")
      /\ BuiltEntries[NumPrompts + 3].name = Ptr("ai-model-menu")
      /\ \A k \in 1..NumModels :
           BuiltEntries[NumPrompts + 3 + k].activate = "action_select_model_cb"

\* An action set has been built for two prompts and two models.
C11_Witness ==
  /\ ui.built
  /\ ui.entries # NullPtr
  /\ NumPrompts = 2
  /\ NumModels = 2
  /\ Len(BuiltEntries) = 7

\* C12: every action m_ui_build_action_entries produces has a non-empty
\* identifier, a non-empty label and a non-empty tooltip, whatever the
\* registry holds; the building is never aborted by a malformed entry.
C12_EntriesHaveNonEmptyFields ==
  ui.built =>
    /\ NumPrompts >= 1 => ui.entries # NullPtr
    /\ ui.entries # NullPtr =>
         \A k \in DOMAIN BuiltEntries :
           /\ BuiltEntries[k].name \notin {NullPtr, Ptr("")}
           /\ BuiltEntries[k].label \notin {NullPtr, Ptr("")}
           /\ BuiltEntries[k].tooltip \notin {NullPtr, Ptr("")}

\* Element k of the loaded registry has no string member of that name.
LacksString(k, member) ==
  StringMember(json_array_get_object_element(Deref(ext.prompts), k), member)
    = NullPtr

\* C12 as the code has it: every action has a non-empty identifier and a
\* label and a tooltip that are not NULL; a missing label is backfilled with
\* "(no label)", a missing tooltip with the empty string; a non-empty
\* registry always yields an action set, whatever its elements are.
C12_EntriesHaveNoNullFields ==
  ui.built =>
    /\ NumPrompts >= 1 => ui.entries # NullPtr
    /\ ui.entries # NullPtr =>
         /\ \A k \in DOMAIN BuiltEntries :
              /\ BuiltEntries[k].name \notin {NullPtr, Ptr("")}
              /\ BuiltEntries[k].label # NullPtr
              /\ BuiltEntries[k].tooltip # NullPtr
         /\ \A k \in 1..NumPrompts :
              /\ LacksString(k, "name") => BuiltEntries[k].label = Ptr("(no label)")
              /\ LacksString(k, "prompt") => BuiltEntries[k].tooltip = Ptr("")

\* An action set has been built from a registry whose first element is no
\* object and whose second element has a name and no prompt text.
C12_Witness ==
  /\ ui.built
  /\ ui.entries # NullPtr
  /\ NumPrompts = 2
  /\ Deref(ext.prompts)[1].t # "object"
  /\ ~LacksString(2, "name")
  /\ LacksString(2, "prompt")
  /\ BuiltEntries[1].label = Ptr("(no label)")
  /\ BuiltEntries[2].tooltip = Ptr("")

\* The array in prompts.json, or the empty sequence when the file does not
\* parse to an array.
FileArray ==
  IF fs.prompts_json.state = "parsed" /\ fs.prompts_json.root.t = "array"
  THEN fs.prompts_json.root.elems
  ELSE <<>>

\* C18: m_config_load_prompts never fails and never returns NULL: a
\* missing, unreadable or unparseable file and a root that is no array give
\* the empty sequence.
C18_LoadPromptsNeverFails ==
  ext.phase = "prompts-loaded" =>
    /\ ext.prompts # NullPtr
    /\ (fs.prompts_json.state # "parsed" \/ fs.prompts_json.root.t # "array")
         => ext.prompts = Ptr(<<>>)

\* The empty registry has come back for a file whose root is an object.
C18_Witness ==
  /\ ext.phase = "prompts-loaded"
  /\ fs.prompts_json.state = "parsed"
  /\ fs.prompts_json.root.t = "object"
  /\ ext.prompts = Ptr(<<>>)

ExtAuthFiles ==
  {AbsentText,
   TextFile(WordsLine(<<"default">>)),
   TextFile(WordsLine(AuthTokens \o <<"sk-one">>))}

ExtPromptFiles ==
  {AbsentJson,
   JsonFile(JsonArray(<<>>)),
   JsonFile(JsonArray(
     <<JsonObject({<<"name", JsonString("fix")>>,
                   <<"prompt", JsonString("Fix the text")>>})>>)),
   JsonFile(JsonArray(
     <<JsonObject({<<"name", JsonString("fix")>>,
                   <<"prompt", JsonString("Fix the text")>>}),
       JsonObject({<<"id", JsonString("proofread-1")>>,
                   <<"text", JsonString("Proofread")>>})>>))}

ExtConfigFiles ==
  {AbsentJson,
   JsonFile(JsonObject({<<"model", JsonString("gpt-4o-mini")>>}))}

\* What one model listing round trip gives: an error with no list, or a
\* list of model identifiers.
FetchOutcomes ==
  {[error |-> TRUE, models |-> <<>>],
   [error |-> FALSE, models |-> <<>>],
   [error |-> FALSE, models |-> <<"gpt-4o">>],
   [error |-> FALSE, models |-> <<"gpt-4o", "gpt-4o-mini">>]}

\* m_chatgpt_fetch_models(api_key, &error): the GList of the outcome.
m_chatgpt_fetch_models(o) == o.models

\* m_msg_composer_extension_init fetching the models with or without a key.
m_msg_composer_extension_init_always_fetch(e, f, o) ==
  LET api_key == m_config_load_api_key(f.authinfo)
      prompts == m_config_load_prompts(f.prompts_json)
  IN [e EXCEPT !.prompts = prompts,
               !.chatgpt_api_key = api_key,
               !.model = m_config_load_model(f.config_json),
               !.models = m_chatgpt_fetch_models(o),
               !.remoteCalls = @ + 1,
               !.phase = "initialised",
               !.keyFound = (api_key # NullPtr),
               !.promptCount = Len(Deref(prompts))]

\* m_msg_composer_extension_init: load the three files; list the models
\* only with an API key.
m_msg_composer_extension_init(e, f, o) ==
  LET api_key == m_config_load_api_key(f.authinfo)
      prompts == m_config_load_prompts(f.prompts_json)
  IN [e EXCEPT !.prompts = prompts,
               !.chatgpt_api_key = api_key,
               !.model = m_config_load_model(f.config_json),
               !.models = IF api_key # NullPtr
                          THEN m_chatgpt_fetch_models(o) ELSE <<>>,
               !.remoteCalls = IF api_key # NullPtr THEN @ + 1 ELSE @,
               !.phase = "initialised",
               !.keyFound = (api_key # NullPtr),
               !.promptCount = Len(Deref(prompts))]

\* validate_configuration asking for prompts only.
validate_configuration_no_key_check(e) ==
  ~(e.prompts = NullPtr \/ Len(Deref(e.prompts)) = 0)

\* validate_configuration: prompts and an API key are there.
validate_configuration(e) ==
  IF e.prompts = NullPtr \/ Len(Deref(e.prompts)) = 0 THEN FALSE
  ELSE IF e.chatgpt_api_key = NullPtr THEN FALSE
  ELSE TRUE

\* m_ui_register_actions: store the context for the callbacks and add the
\* entries to the composer's UI manager.
m_ui_register_actions(u, action_entries, action_context) ==
  [u EXCEPT !.g_action_context = action_context,
            !.registered = action_entries.entries]

\* m_msg_composer_extension_add_ui: nothing without a valid configuration;
\* else make the context, build the entries and register them.
m_msg_composer_extension_add_ui(e, u) ==
  IF ~validate_configuration(e) THEN u
  ELSE
    LET ui_context == m_ui_action_context_new(e.prompts, e.chatgpt_api_key,
                                              e.model, e.models)
        action_entries == m_ui_build_action_entries(e.prompts, ui_context)
        u1 == [u EXCEPT !.context = Ptr(ui_context)]
    IN IF action_entries = NullPtr THEN u1
       ELSE m_ui_register_actions(u1, Deref(action_entries), Ptr(ui_context))

\* m_msg_composer_extension_dispose: release the private data.  The
\* composer goes with its actions; g_action_context is left as it is.
m_msg_composer_extension_dispose(e) ==
  [e EXCEPT !.prompts = NullPtr, !.chatgpt_api_key = NullPtr,
            !.model = NullPtr, !.models = <<>>, !.phase = "disposed"]

\* The arguments action_proofread_cb hands to m_proofreader_start for the
\* action of that name, taken from the stored action context.
ProofreadArgs(action_name, ctx) ==
  [cnt_editor |-> "editor",
   prompt_id  |-> action_name,
   prompts    |-> IF ctx.prompts = NullPtr THEN NULL ELSE "registry",
   api_key    |-> IF ctx.api_key = NullPtr THEN NULL ELSE Deref(ctx.api_key),
   model      |-> IF ctx.model = NullPtr THEN NULL ELSE Deref(ctx.model)]

\* action_proofread_cb on invocation record s: nothing without a stored
\* context; else m_proofreader_start with the context's values.
action_proofread_cb(s, action_name, g_action_context) ==
  IF g_action_context = NullPtr THEN s
  ELSE m_proofreader_start(s, ProofreadArgs(action_name, Deref(g_action_context)))

\* A composer is created: the extension instance is initialised.
ExtensionInit ==
  /\ ext.phase = "none"
  /\ \E o \in FetchOutcomes :
       ext' = m_msg_composer_extension_init(ext, fs, o)
  /\ UNCHANGED <<inv, fs, ui>>

\* The extension is attached to its composer: constructed calls add_ui.
ExtensionConstructed ==
  /\ ext.phase = "initialised"
  /\ ui' = m_msg_composer_extension_add_ui(ext, ui)
  /\ ext' = [ext EXCEPT !.phase = "constructed"]
  /\ UNCHANGED <<inv, fs>>

\* The user activates a registered prompt action of the composer.
ActivateProofread(i) ==
  /\ ext.phase = "constructed"
  /\ inv[i].phase = "Idle"
  /\ \E k \in DOMAIN ui.registered :
       /\ ui.registered[k].activate = "action_proofread_cb"
       /\ inv' = [inv EXCEPT ![i] =
                    action_proofread_cb(@, Deref(ui.registered[k].name),
                                        ui.g_action_context)]
  /\ UNCHANGED cfgVars

\* The composer is finalised: the extension is disposed, and the composer's
\* actions go with its UI manager.
ExtensionDispose ==
  /\ ext.phase \in {"initialised", "constructed"}
  /\ ext' = m_msg_composer_extension_dispose(ext)
  /\ ui' = [ui EXCEPT !.context = NullPtr, !.registered = <<>>]
  /\ UNCHANGED <<inv, fs>>

ExtInit ==
  /\ inv = [i \in Inv |-> IdleInvocation]
  /\ fs \in {[NoFiles EXCEPT !.authinfo = a, !.prompts_json = p,
                             !.config_json = c, !.config_original = c] :
               a \in ExtAuthFiles, p \in ExtPromptFiles, c \in ExtConfigFiles}
  /\ ext = NoExtension
  /\ ui = NoUi

\* The extension's lifecycle, and of an invocation the steps from the
\* activated action to the remote call and its completion; the wait timer
\* and the closing of the window are followed in Spec.
ExtNext ==
  \/ ExtensionInit
  \/ ExtensionConstructed
  \/ ExtensionDispose
  \/ \E i \in Inv :
       \/ ActivateProofread(i)
       \/ ContentReady(i)
       \/ WorkerRun(i)
       \/ TaskCompleted(i)
       \/ DismissNoResponse(i)

ExtSpec == ExtInit /\ [][ExtNext]_vars

\* An invocation has been started: m_proofreader_start has been entered.
InvocationStarted(i) == inv[i].phase # "Idle"

\* C20: without an API key the extension makes no remote call (no model
\* listing at initialisation, no transform) and registers no action; with
\* an empty prompt registry it registers no action; and with no action
\* registered no invocation is started.
C20_NoKeyOrNoPromptsDisablesEverything ==
  ext.phase # "none" =>
    /\ ~ext.keyFound =>
         /\ ext.remoteCalls = 0
         /\ \A i \in Inv : inv[i].calls = 0
         /\ ui.registered = <<>>
         /\ ui.g_action_context = NullPtr
    /\ ext.promptCount = 0 => (ui.registered = <<>> /\ ui.g_action_context = NullPtr)
    /\ ui.g_action_context = NullPtr => \A i \in Inv : ~InvocationStarted(i)

\* An extension with prompts and no API key has been constructed with
\* nothing registered and no remote call made.
C20_Witness ==
  /\ ext.phase = "constructed"
  /\ ~ext.keyFound
  /\ ext.promptCount >= 1
  /\ ui.registered = <<>>
  /\ ext.remoteCalls = 0

(***************************************************************************)
(* A session of composers opened one after the other: model selection,     *)
(* the dropdown, and the invocation an action starts                       *)
(***************************************************************************)

\* Number of composers a session opens, one after the other.
MaxComposers == 2

\* The invocation a session follows.
SessionInv == {1}

\* What can follow the "ai-model-" prefix of an action name.
ActionSuffixes == ModelIds \cup {"menu"}

g_str_has_prefix(str, prefix) == \E x \in ActionSuffixes : prefix \o x = str

\* action_name + strlen(prefix): the text behind the prefix.
SkipPrefix(str, prefix) == CHOOSE x \in ActionSuffixes : prefix \o x = str

\* m_ui_action_context_set_model that keeps the model in the context only.
m_ui_action_context_set_model_no_save(ctx, f, model, io) ==
  [context |-> [ctx EXCEPT !.model = Ptr(model)],
   save |-> [files |-> f, success |-> FALSE]]

\* m_ui_action_context_set_model(context, model), both not NULL: replace
\* the context's model and save it; the gboolean of the save is dropped.
m_ui_action_context_set_model(ctx, f, model, io) ==
  [context |-> [ctx EXCEPT !.model = Ptr(model)],
   save |-> m_config_save_model(f, model, io)]

\* action_select_model_cb handing the whole action name on as the model.
action_select_model_cb_whole_name(g_action_context, f, action_name, io) ==
  IF g_action_context = NullPtr
  THEN [context |-> g_action_context, save |-> [files |-> f, success |-> FALSE]]
  ELSE LET r == m_ui_action_context_set_model(
                  Deref(g_action_context), f, action_name, io)
       IN [context |-> Ptr(r.context), save |-> r.save]

\* action_select_model_cb for the action of that name: nothing without a
\* stored context or for a name without the prefix.
action_select_model_cb(g_action_context, f, action_name, io) ==
  IF g_action_context = NullPtr
  THEN [context |-> g_action_context, save |-> [files |-> f, success |-> FALSE]]
  ELSE IF g_str_has_prefix(action_name, "ai-model-")
  THEN LET r == m_ui_action_context_set_model(
                  Deref(g_action_context), f,
                  SkipPrefix(action_name, "ai-model-"), io)
       IN [context |-> Ptr(r.context), save |-> r.save]
  ELSE [context |-> g_action_context, save |-> [files |-> f, success |-> FALSE]]

\* The user activates a registered model action of the composer.  With one
\* composer open at a time the stored context is the composer's own.  saved
\* and selectedAt remember the model of the last selection the file system
\* let through, and the composer it was made in; selectedInFlight that a
\* selection was made while a worker had its call still before it.
SelectModel ==
  /\ ext.phase = "constructed"
  /\ \E k \in DOMAIN ui.registered, io \in SaveOutcomes :
       /\ ui.registered[k].activate = "action_select_model_cb"
       /\ LET r == action_select_model_cb(ui.g_action_context, fs,
                                          Deref(ui.registered[k].name), io)
          IN /\ ui' = [ui EXCEPT !.g_action_context = r.context,
                                 !.context = r.context]
             /\ fs' = r.save.files
             /\ ext' = [ext EXCEPT
                          !.saved = IF io = "ok"
                                    THEN Ptr(SkipPrefix(Deref(ui.registered[k].name),
                                                        "ai-model-"))
                                    ELSE @,
                          !.selectedAt = IF io = "ok" THEN ext.composers ELSE @,
                          !.selectedInFlight =
                            @ \/ \E i \in Inv : /\ inv[i].task = "running"
                                                /\ inv[i].calls = 0]
  /\ UNCHANGED inv

\* The first composer of the session is created.
FirstComposer ==
  /\ ext.phase = "none"
  /\ \E o \in FetchOutcomes :
       ext' = [m_msg_composer_extension_init(ext, fs, o) EXCEPT !.composers = 1]
  /\ UNCHANGED <<inv, fs, ui>>

\* The next composer is created after the one before it has been closed.
NextComposer ==
  /\ ext.phase = "disposed"
  /\ ext.composers < MaxComposers
  /\ \E o \in FetchOutcomes :
       ext' = [m_msg_composer_extension_init(ext, fs, o) EXCEPT !.composers = @ + 1]
  /\ UNCHANGED <<inv, fs, ui>>

\* action_dropdown_cb handing the bare prompt name to the menu items.
action_dropdown_cb_bare_name(g_action_context) ==
  IF g_action_context = NullPtr THEN <<>>
  ELSE LET prompts == Deref(Deref(g_action_context).prompts) IN
    [k \in DOMAIN prompts |->
       LET name == StringMember(json_array_get_object_element(prompts, k), "name")
       IN [label |-> name, prompt_id |-> FormatString(name)]]

\* action_dropdown_cb: the menu popped up, one item per element of the
\* context's prompts, labelled with the name and carrying a copy of the
\* action name as the data of its activate handler.
action_dropdown_cb(g_action_context) ==
  IF g_action_context = NullPtr THEN <<>>
  ELSE LET prompts == Deref(Deref(g_action_context).prompts) IN
    [k \in DOMAIN prompts |->
       LET name == StringMember(json_array_get_object_element(prompts, k), "name")
       IN [label |-> name,
           prompt_id |-> "ai-proofread-" \o FormatString(name)]]

\* menu_item_activate_cb on invocation record s: m_proofreader_start with
\* the item's prompt id and the stored context's values.
menu_item_activate_cb(s, prompt_id, g_action_context) ==
  IF g_action_context = NullPtr THEN s
  ELSE m_proofreader_start(s, ProofreadArgs(prompt_id, Deref(g_action_context)))

\* The user activates the dropdown action of the toolbar.
ActivateDropdown ==
  /\ ext.phase = "constructed"
  /\ \E k \in DOMAIN ui.registered :
       ui.registered[k].activate = "action_dropdown_cb"
  /\ ui.menu = <<>>
  /\ ui' = [ui EXCEPT !.menu = action_dropdown_cb(ui.g_action_context)]
  /\ UNCHANGED <<inv, fs, ext>>

\* The user picks item k of the popped-up menu; the menu closes.
SelectMenuItem(i) ==
  /\ ext.phase = "constructed"
  /\ inv[i].phase = "Idle"
  /\ \E k \in DOMAIN ui.menu :
       /\ inv' = [inv EXCEPT ![i] =
                    menu_item_activate_cb(@, ui.menu[k].prompt_id,
                                          ui.g_action_context)]
       /\ ui' = [ui EXCEPT
                   !.menu = <<>>,
                   !.picked =
                     [via |-> "menu", k |-> k,
                      expect |-> action_proofread_cb(
                                   inv[i], Deref(ui.registered[k].name),
                                   ui.g_action_context).args]]
  /\ UNCHANGED <<fs, ext>>

\* The user activates prompt action k of the composer's menu.
ActivatePromptAction(i) ==
  /\ ext.phase = "constructed"
  /\ inv[i].phase = "Idle"
  /\ \E k \in DOMAIN ui.registered :
       /\ ui.registered[k].activate = "action_proofread_cb"
       /\ inv' = [inv EXCEPT ![i] =
                    action_proofread_cb(@, Deref(ui.registered[k].name),
                                        ui.g_action_context)]
       /\ ui' = [ui EXCEPT !.picked = [via |-> "action", k |-> k,
                                       expect |-> NoArgs]]
  /\ UNCHANGED <<fs, ext>>

\* The composer is closed: the extension is disposed, and the composer's
\* actions and its popped-up menu go with it.
CloseComposer ==
  /\ ext.phase \in {"initialised", "constructed"}
  /\ ext' = m_msg_composer_extension_dispose(ext)
  /\ ui' = [ui EXCEPT !.context = NullPtr, !.registered = <<>>, !.menu = <<>>]
  /\ UNCHANGED <<inv, fs>>

\* A session starts with an authinfo file that has a key, a prompts.json of
\* one or two elements and a config.json that is absent, holds a model, or
\* holds a model and another key.
SessionInit ==
  /\ inv = [i \in Inv |-> IdleInvocation]
  /\ fs \in {[NoFiles EXCEPT
                !.authinfo = TextFile(WordsLine(AuthTokens \o <<"sk-one">>)),
                !.prompts_json = p, !.config_json = c, !.config_original = c] :
               p \in {q \in ExtPromptFiles : Len(q.root.elems) >= 1},
               c \in ExtConfigFiles \cup
                     {JsonFile(JsonObject({<<"model", JsonString("gpt-4o")>>,
                                           <<"theme", JsonString("dark")>>}))}}
  /\ ext = NoExtension
  /\ ui = NoUi

\* The composers of a session, their model actions and dropdown, and the
\* start of an invocation; what the invocation does next is followed in
\* ComposerSpec.
SessionNext ==
  \/ FirstComposer
  \/ NextComposer
  \/ ExtensionConstructed
  \/ CloseComposer
  \/ SelectModel
  \/ ActivateDropdown
  \/ \E i \in SessionInv :
       \/ SelectMenuItem(i)
       \/ ActivatePromptAction(i)

SessionSpec == SessionInit /\ [][SessionNext]_vars

\* One composer from its creation to its closing, with the invocation its
\* prompt action starts and every handler of that invocation.
ComposerNext ==
  \/ FirstComposer
  \/ ExtensionConstructed
  \/ CloseComposer
  \/ SelectModel
  \/ \E i \in SessionInv :
       \/ ActivatePromptAction(i)
       \/ ContentReady(i)
       \/ Tick(i)
       \/ WaitTimeout(i)
       \/ WorkerRun(i)
       \/ TaskCompleted(i)
       \/ DismissNoResponse(i)
       \/ ComposerDestroy(i)

ComposerSpec == SessionInit /\ [][ComposerNext]_vars

\* The model the last selection chose.
SelectedModel == Deref(ext.saved)

\* An action set has been built and registered after the last selection.
RebuiltAfterSelection ==
  /\ ext.phase = "constructed"
  /\ ext.composers > ext.selectedAt
  /\ ui.registered # <<>>

SelectionStepOf(m) ==
  /\ ext.phase = "constructed"
  /\ \E k \in DOMAIN ui.registered :
       /\ ui.registered[k].activate = "action_select_model_cb"
       /\ ui.registered[k].name = Ptr("ai-model-" \o m)
  /\ <<"model", JsonString(m)>> \in fs'.config_json.root.members
  /\ ui'.g_action_context # NullPtr
  /\ Deref(ui'.g_action_context).model = Ptr(m)
  /\ ext'.phase = ext.phase
  /\ ui'.registered = ui.registered
  /\ UNCHANGED inv

\* C22: the persisted selection is changed only by an explicit model
\* selection: every step that changes config.json is the activation of a
\* model action and leaves that action's model in the file; creating,
\* constructing and closing the composer, starting an invocation, content
\* delivery, the timer, the worker and the completion leave the file as it
\* was.
C22_OnlySelectionChangesConfig ==
  [][fs.config_json' # fs.config_json => \E m \in ModelIds : SelectionStepOf(m)]_vars

\* A selection has changed config.json, and an invocation started in the
\* same composer has run to its completion handler over the changed file.
C22_Witness ==
  /\ ext.saved # NullPtr
  /\ fs.config_json # fs.config_original
  /\ inv[1].handlerRuns = 1
  /\ <<"model", JsonString(SelectedModel)>> \in fs.config_json.root.members

\* The k-th element of prompts.json has the documented form: an object with
\* a string "id" and a string "text".
DocumentedPrompt(k) ==
  /\ FileArray[k].t = "object"
  /\ ~LacksString(k, "id")
  /\ ~LacksString(k, "text")

\* The string member of that name of the k-th element of prompts.json.
FileString(k, member) ==
  (CHOOSE m \in FileArray[k].members : m[1] = member)[2].v

\* C23: for an entry of prompts.json of the documented form {"id", "text"}
\* the built action shows the id as its label, has an identifier derived
\* from the id and carries the text as its prompt text; entries with
\* different ids get different identifiers.
C23_DocumentedEntryBecomesItsAction ==
  (ui.built /\ ui.entries # NullPtr) =>
    /\ \A k \in 1..Len(FileArray) :
         DocumentedPrompt(k) =>
           /\ BuiltEntries[k].label = Ptr(FileString(k, "id"))
           /\ BuiltEntries[k].name = Ptr("ai-proofread-" \o FileString(k, "id"))
           /\ BuiltEntries[k].tooltip = Ptr(FileString(k, "text"))
    /\ \A j, k \in 1..Len(FileArray) :
         (/\ DocumentedPrompt(j)
          /\ DocumentedPrompt(k)
          /\ FileString(j, "id") # FileString(k, "id"))
           => BuiltEntries[j].name # BuiltEntries[k].name

\* The registered prompt actions of the composer.
PromptActions ==
  {k \in DOMAIN ui.registered : ui.registered[k].activate = "action_proofread_cb"}

\* C24: the dropdown lists exactly one item per prompt, and selecting an
\* item starts an invocation with the same prompt identifier, and the same
\* registry, key and model, as that prompt's own menu action.
C24_DropdownItemsMatchPromptActions ==
  /\ ui.menu # <<>> =>
       /\ Len(ui.menu) = Len(Deref(ext.prompts))
       /\ DOMAIN ui.menu = PromptActions
       /\ \A k \in DOMAIN ui.menu :
            Ptr(ui.menu[k].prompt_id) = ui.registered[k].name
  /\ ui.picked.via = "menu" =>
       /\ inv[1].phase = "AwaitingContent"
       /\ inv[1].args = ui.picked.expect
       /\ ext.phase = "constructed" =>
            Ptr(inv[1].args.prompt_id) = ui.registered[ui.picked.k].name

\* The second item of a two-item dropdown has been picked, and the
\* invocation has started with the identifier of the second prompt action.
C24_Witness ==
  /\ ui.picked.via = "menu"
  /\ ui.picked.k = 2
  /\ ext.phase = "constructed"
  /\ Len(Deref(ext.prompts)) = 2
  /\ inv[1].phase = "AwaitingContent"
  /\ Ptr(inv[1].args.prompt_id) = ui.registered[2].name
  /\ inv[1].args.api_key = <<"sk-one">>

\* An outcome of invocation i is on the composer: an alert, the no-response
\* notice or an insertion.
OutcomeSurfaced(i) ==
  \/ inv[i].alerts # <<>>
  \/ inv[i].notices > 0
  \/ inv[i].inserted # <<>>

\* C25: the completion handler dismisses the wait indicator and cancels its
\* timer before it surfaces any outcome: no alert, no-response dialog or
\* insertion is made while the wait dialog is on screen or the timer is
\* attached, and none of them is ever there together with the wait dialog.
C25_IndicatorGoneBeforeOutcome ==
  \A i \in Inv :
    /\ ~inv[i].overlap
    /\ OutcomeSurfaced(i) =>
         /\ inv[i].dialog # "shown"
         /\ inv[i].source # "attached"
         /\ ~inv[i].context.wait_dialog
         /\ inv[i].context.wait_timeout_id = 0

\* The wait dialog was shown and destroyed, and then the text was inserted.
C25_Witness ==
  \E i \in Inv :
    /\ inv[i].shows = 1
    /\ inv[i].destroys = 1
    /\ inv[i].dialog = "destroyed"
    /\ inv[i].inserted # <<>>
    /\ ~inv[i].overlap

\* C26: the completion handler runs exactly once per dispatched request, on
\* the UI context, only after start_proofread_task has returned and after
\* the worker has finished: it never runs for a request that was not
\* dispatched, never twice, never on the worker, never before the worker's
\* one remote call has returned, and a finished request has had its one
\* run.
C26_HandlerOncePerDispatchOnUi ==
  \A i \in Inv :
    /\ inv[i].handlerRuns <= 1
    /\ inv[i].handlerOn \subseteq {"ui"}
    /\ inv[i].task = "none" => inv[i].handlerRuns = 0
    /\ inv[i].task = "running" => inv[i].handlerRuns = 0
    /\ inv[i].handlerRuns = 1 =>
         /\ inv[i].task \in {"returned", "completed"}
         /\ inv[i].calls = 1
         /\ inv[i].content # NULL
         /\ inv[i].phase \notin {"Idle", "AwaitingContent", "Dispatched"}
    /\ inv[i].task = "completed" => inv[i].handlerRuns = 1

\* A dispatched request has finished after one run of the handler on the UI
\* context, which followed the worker's remote call.
C26_Witness ==
  \E i \in Inv :
    /\ inv[i].task = "completed"
    /\ inv[i].handlerRuns = 1
    /\ inv[i].handlerOn = {"ui"}
    /\ inv[i].remoteOn = {"worker"}
    /\ inv[i].calls = 1

\* C29: the blocking remote call is made only on the worker context, never
\* on the UI context, and the worker performs no UI action: the timer is
\* armed and cancelled, the wait dialog shown and destroyed, and every
\* alert, notice and insertion made on the UI context.
C29_RemoteCallOnWorkerUiOnUi ==
  \A i \in Inv :
    /\ inv[i].remoteOn \subseteq {"worker"}
    /\ inv[i].calls > 0 => inv[i].remoteOn = {"worker"}
    /\ inv[i].uiOn \subseteq {"ui"}
    /\ inv[i].on = "ui"

\* The wait dialog went up on the UI context while the worker was in its
\* remote call, and the call has come back on the worker.
C29_Witness ==
  \E i \in Inv :
    /\ inv[i].late
    /\ inv[i].shows = 1
    /\ inv[i].uiOn = {"ui"}
    /\ inv[i].calls = 1
    /\ inv[i].remoteOn = {"worker"}
    /\ inv[i].task = "returned"

\* The phase changes of the invocation state machine: Idle, AwaitingContent,
\* Dispatched, then one of Completing, Failed and Empty (Empty through the
\* no-response notice); Aborted, ContentError and Empty without a dispatch
\* are the ways out before a dispatch.
PhaseOrder ==
  {<<"Idle", "AwaitingContent">>, <<"Idle", "Aborted">>,
   <<"AwaitingContent", "Dispatched">>, <<"AwaitingContent", "Empty">>,
   <<"AwaitingContent", "ContentError">>,
   <<"Dispatched", "Completing">>, <<"Dispatched", "Failed">>,
   <<"Dispatched", "NoResponseDialog">>, <<"NoResponseDialog", "Empty">>}

\* C27: every invocation follows the order Idle, AwaitingContent,
\* Dispatched, then exactly one of Completing, Failed or Empty: Dispatched is
\* entered only from AwaitingContent and only with non-empty text, a
\* terminal state is never left, so it is entered at most once and nothing
\* is dispatched after it.
C27_PhasesInOrderDispatchNeedsText ==
  [][\A i \in Inv :
       inv'[i].phase # inv[i].phase =>
         /\ <<inv[i].phase, inv'[i].phase>> \in PhaseOrder
         /\ inv[i].phase \notin Terminal \cup {"Aborted"}
         /\ inv'[i].phase = "Dispatched" =>
              /\ inv[i].phase = "AwaitingContent"
              /\ inv'[i].content \notin {NULL, ""}
              /\ inv'[i].task = "running"]_vars

\* C28: the values the worker uses for the remote call (prompt id, prompt
\* registry, API key, model) are those handed to m_proofreader_start: a
\* model selection made while the request is in flight does not change what
\* the worker sends.
C28_WorkerSendsCapturedValues ==
  \A i \in Inv :
    inv[i].calls > 0 => inv[i].sent = RequestValues(inv[i].args)

\* gpt-4o-mini was selected while the worker of a request started with
\* gpt-4o had its call before it; the worker has sent gpt-4o.
C28_Witness ==
  /\ ext.selectedInFlight
  /\ ui.g_action_context # NullPtr
  /\ Deref(ui.g_action_context).model = Ptr("gpt-4o-mini")
  /\ inv[1].calls = 1
  /\ inv[1].args.model = "gpt-4o"
  /\ inv[1].sent.model = "gpt-4o"
  /\ inv[1].sent.prompt_id = inv[1].args.prompt_id

(***************************************************************************)
(* Two invocations in flight at the same time                              *)
(***************************************************************************)

\* The two invocations.
PairInv == {1, 2}

PairInit ==
  /\ inv = [i \in PairInv |-> IdleInvocation]
  /\ fs = NoFiles
  /\ ext = NoExtension
  /\ ui = NoUi

\* The first invocation has been started and has not reached its end.
FirstInFlight == inv[1].phase \in {"AwaitingContent", "Dispatched"}

\* A second user action reaches m_proofreader_start while the first
\* invocation is in flight.
StartSecond ==
  /\ FirstInFlight
  /\ Start(2)

\* The handlers of the two invocations in every interleaving.
PairNext ==
  \/ Start(1)
  \/ StartSecond
  \/ \E i \in PairInv :
       \/ ContentReady(i)
       \/ Tick(i)
       \/ WaitTimeout(i)
       \/ WorkerRun(i)
       \/ TaskCompleted(i)
       \/ DismissNoResponse(i)
       \/ ComposerDestroy(i)

PairSpec == PairInit /\ [][PairNext]_vars

\* What invocation i holds is its own: its timer handle is zero or the id
\* of its own source, its source is gone only after its own timer fired or
\* its own handler ran, its dialog is destroyed only by its own handler and
\* no more often than shown, its context is freed once and only at its own
\* end, and what it surfaced is its own result.
OwnOnly(i) ==
  /\ inv[i].context.wait_timeout_id \in {0, SourceId(i)}
  /\ inv[i].source = "removed" => inv[i].fired # "no" \/ inv[i].handlerRuns = 1
  /\ inv[i].dialog = "destroyed" => inv[i].handlerRuns = 1 /\ inv[i].shows = 1
  /\ inv[i].destroys <= inv[i].shows
  /\ inv[i].frees <= 1
  /\ inv[i].phase = "Dispatched" => inv[i].mem = "live" /\ inv[i].frees = 0
  /\ inv[i].mem = "freed" => inv[i].phase \in Terminal
  /\ inv[i].alerts \in {<<>>, <<inv[i].result.error>>}
  /\ inv[i].inserted \in {<<>>, <<inv[i].result.text>>}
  /\ inv[i].handlerRuns <= inv[i].calls

TimerFrame(s) ==
  [s EXCEPT !.source = "-", !.dialog = "-", !.fired = "-", !.shows = 0,
            !.uiOn = {}, !.context.wait_dialog = FALSE,
            !.context.wait_timeout_id = 0]

\* The outcome the completion handler delivers for the worker's result.
OutcomeOf(result) ==
  [alerts |-> IF result.error # NULL THEN <<result.error>> ELSE <<>>,
   notices |-> IF result.error = NULL /\ result.text = NULL THEN 1 ELSE 0,
   inserted |-> IF result.error = NULL /\ result.text # NULL
                THEN <<result.text>> ELSE <<>>]

\* C31: the firing of the wait timer changes only the visibility of the
\* indicator: the step leaves the task, the remote call, its result and
\* everything else of the invocation as it was, and the outcome the
\* completion handler delivers (alert, notice or inserted text) is the one
\* of the worker's result whether or not the timer fired.
C31_TimerIsCosmetic ==
  /\ [][\A i \in Inv :
          inv'[i].fired # inv[i].fired => TimerFrame(inv'[i]) = TimerFrame(inv[i])]_vars
  /\ [](\A i \in Inv :
          inv[i].handlerRuns > 0 =>
            [alerts |-> inv[i].alerts, notices |-> inv[i].notices,
             inserted |-> inv[i].inserted] = OutcomeOf(inv[i].result))

\* The timer fired and showed the dialog while the call was under way, and
\* the handler has inserted the text the worker brought back.
C31_Witness ==
  \E i \in Inv :
    /\ inv[i].fired = "live"
    /\ inv[i].late
    /\ inv[i].shows = 1
    /\ inv[i].calls = 1
    /\ inv[i].result.text = "fixed-a"
    /\ inv[i].inserted = <<"fixed-a">>

(***************************************************************************)
(* m_config_save_model next to another writer of config.json               *)
(***************************************************************************)

\* External edits of config.json in a run.
MaxEdits == 2

\* The unrelated members another program sets in config.json.
ExternalMembers ==
  {<<"theme", JsonString("light")>>, <<"font", JsonString("mono")>>}

\* The first half of m_config_save_model: the existing root object's
\* members when the file parses to an object, else a new object's.
save_model_load_existing(f) ==
  IF json_parser_load_from_file(f.config_json)
     /\ JSON_NODE_HOLDS_OBJECT(f.config_json.root)
  THEN f.config_json.root.members
  ELSE {}

\* The second half of m_config_save_model merging into the file as it is at
\* the time of the write.
save_model_generate_rereads(f, config_obj, model, io) ==
  IF io = "write-fails" THEN [files |-> f, success |-> FALSE]
  ELSE [files |-> [f EXCEPT !.config_json =
                     JsonFile(JsonObject(json_object_set_string_member(
                       save_model_load_existing(f), "model", model)))],
        success |-> TRUE]

\* The second half of m_config_save_model: replace "model" in the object
\* read before and write every member of it over the file.
save_model_generate(f, config_obj, model, io) ==
  IF io = "write-fails" THEN [files |-> f, success |-> FALSE]
  ELSE [files |-> [f EXCEPT !.config_json =
                     JsonFile(JsonObject(json_object_set_string_member(
                       IF json_object_has_member(config_obj, "model")
                       THEN json_object_remove_member(config_obj, "model")
                       ELSE config_obj,
                       "model", model)))],
        success |-> TRUE]

\* m_config_save_model up to and with its read of config.json.
SaveBegin ==
  /\ ext.save.pc \in {"idle", "written"}
  /\ ext.saves < MaxSaves
  /\ \E m \in SaveModels, io \in {"ok", "mkdir-fails"} :
       IF io = "mkdir-fails"
       THEN /\ ext' = [ext EXCEPT !.saves = @ + 1, !.save.pc = "idle"]
            /\ fs' = fs
       ELSE /\ ext' = [ext EXCEPT
                         !.saves = @ + 1,
                         !.save.pc = "read",
                         !.save.model = m,
                         !.save.config_obj = save_model_load_existing(fs),
                         !.save.edited = FALSE,
                         !.save.edit = <<>>]
            /\ fs' = [fs EXCEPT !.config_dir = TRUE]
  /\ UNCHANGED <<inv, ui>>

\* Another program rewrites config.json with one of its own members set.
ExternalEdit ==
  /\ ext.save.edits < MaxEdits
  /\ \E e \in ExternalMembers :
       /\ e \notin save_model_load_existing(fs)
       /\ fs' = [fs EXCEPT !.config_json =
                   JsonFile(JsonObject(
                     json_object_remove_member(save_model_load_existing(fs), e[1])
                       \cup {e}))]
       /\ ext' = [ext EXCEPT
                    !.save.edits = @ + 1,
                    !.save.edited = @ \/ ext.save.pc = "read",
                    !.save.edit = IF ext.save.pc = "read" THEN e ELSE @]
  /\ UNCHANGED <<inv, ui>>

\* m_config_save_model from its update of the object to its return.
SaveEnd ==
  /\ ext.save.pc = "read"
  /\ \E io \in {"ok", "write-fails"} :
       LET r == save_model_generate(fs, ext.save.config_obj, ext.save.model, io)
       IN /\ fs' = r.files
          /\ ext' = [ext EXCEPT
                       !.save.pc = IF r.success THEN "written" ELSE "idle",
                       !.save.before = fs.config_json,
                       !.save.written = r.files.config_json,
                       !.saved = IF r.success THEN Ptr(ext.save.model) ELSE @]
  /\ UNCHANGED <<inv, ui>>

RaceInit == ConfigInit

RaceNext == SaveBegin \/ ExternalEdit \/ SaveEnd

RaceSpec == RaceInit /\ [][RaceNext]_vars

\* C32: when an external writer adds or changes an unrelated key of
\* config.json between the read and the write of m_config_save_model, that
\* edit is absent from the file the save leaves, which holds the other keys
\* as they were read; with no writer in between the save leaves every other
\* key the file had and is the save done in one step.
C32_EditBetweenReadAndWriteIsLost ==
  ext.save.pc = "written" =>
    /\ OtherKeys(ext.save.written) =
         {p \in ext.save.config_obj : p[1] # "model"}
    /\ ext.save.edited => ext.save.edit \notin ext.save.written.root.members
    /\ ~ext.save.edited =>
         /\ OtherKeys(ext.save.before) \subseteq ext.save.written.root.members
         /\ ext.save.written =
              m_config_save_model([fs EXCEPT !.config_json = ext.save.before],
                                  ext.save.model, "ok").files.config_json

\* The font was set by another program between the read and the write over
\* a file that had a theme; the save has left the theme and no font.
C32_Witness ==
  /\ ext.save.pc = "written"
  /\ ext.save.edited
  /\ ext.save.edit = <<"font", JsonString("mono")>>
  /\ ext.save.edit \in ext.save.before.root.members
  /\ <<"theme", JsonString("dark")>> \in ext.save.written.root.members
  /\ ext.save.edit \notin ext.save.written.root.members
  /\ fs.config_json = ext.save.written

(***************************************************************************)
(* Several composers open at a time (static g_action_context)              *)
(***************************************************************************)

\* Composers opened in a run.
MaxOpen == 2

Windows == 1..MaxOpen

\* A composer that has not been created: no extension instance, no action
\* context (address 0), no actions.
NoWindow ==
  [phase |-> "none", priv |-> NoExtension, ui_context |-> 0, registered |-> <<>>]

\* The model listing every composer of a run gets.
ListedModels == [error |-> FALSE, models |-> <<"gpt-4o", "gpt-4o-mini">>]

\* What a callback can meet at the address it reads: the context when it
\* is live; for freed memory the old bytes, or the end of the process.
ReadOutcomes(u, a) ==
  IF u.heap[a].state = "live" THEN {"live"} ELSE {"stale", "crash"}

\* The composer c is created: its extension instance is initialised and
\* constructed; add_ui allocates the composer's action context and
\* m_ui_register_actions stores its address in g_action_context.
OpenWindow(u, f, c) ==
  LET priv == m_msg_composer_extension_init(NoExtension, f, ListedModels)
      r == m_msg_composer_extension_add_ui(priv, NoUi)
  IN [u EXCEPT
        !.windows[c] = [phase |-> "open", priv |-> priv,
                        ui_context |-> IF r.context = NullPtr THEN 0 ELSE c,
                        registered |-> r.registered],
        !.heap[c] = IF r.context = NullPtr THEN @
                    ELSE [state |-> "live", context |-> r.context],
        !.g_action_context = IF r.g_action_context = NullPtr THEN @ ELSE Ptr(c)]

\* The composer c is finalised: dispose releases the private data and frees
\* the action context; g_action_context keeps the address it has.
CloseWindow(u, c) ==
  LET a == u.windows[c].ui_context
  IN [u EXCEPT
        !.windows[c] = [phase |-> "closed",
                        priv |-> m_msg_composer_extension_dispose(@.priv),
                        ui_context |-> 0, registered |-> <<>>],
        !.heap[c] = IF a = 0 THEN @ ELSE [@ EXCEPT !.state = "freed"]]

\* What a callback run in composer c leaves in last.
Callback(u, v, c, kind, model) ==
  LET a == Deref(u.g_action_context)
      own == u.windows[c].ui_context
  IN [kind |-> kind, window |-> c,
      freed |-> u.heap[a].state = "freed",
      ownBefore |-> Deref(u.heap[own].context).model,
      ownAfter |-> Deref(v.heap[own].context).model,
      model |-> model,
      otherChanged |-> \E b \in Windows : b # own /\ v.heap[b] # u.heap[b]]

\* A run starts with a key in authinfo, one prompt and a config.json that
\* is absent or holds a model; every save of a selection goes through.
MultiInit ==
  /\ inv = [i \in Inv |-> IdleInvocation]
  /\ fs \in {[NoFiles EXCEPT
                !.authinfo = TextFile(WordsLine(AuthTokens \o <<"sk-one">>)),
                !.prompts_json = p, !.config_json = c, !.config_original = c] :
               p \in {q \in ExtPromptFiles : Len(q.root.elems) = 1},
               c \in ExtConfigFiles}
  /\ ext = NoExtension
  /\ ui = [NoUi EXCEPT
             !.windows = [c \in Windows |-> NoWindow],
             !.heap = [a \in Windows |-> [state |-> "unallocated",
                                          context |-> NullPtr]]]

\* The user opens composer c.
OpenComposer(c) ==
  /\ ~ui.crashed
  /\ ui.windows[c].phase = "none"
  /\ ui' = OpenWindow(ui, fs, c)
  /\ UNCHANGED <<inv, fs, ext>>

\* The user closes composer c; a popped-up menu goes with it.
CloseOpenComposer(c) ==
  /\ ~ui.crashed
  /\ ui.windows[c].phase = "open"
  /\ ui' = [CloseWindow(ui, c) EXCEPT !.menu = <<>>]
  /\ UNCHANGED <<inv, fs, ext>>

\* A callback of composer c is about to run with a stored context.
CanCall(c, activate) ==
  /\ ~ui.crashed
  /\ ui.windows[c].phase = "open"
  /\ ui.g_action_context # NullPtr
  /\ \E k \in DOMAIN ui.windows[c].registered :
       ui.windows[c].registered[k].activate = activate

\* The user activates a prompt action of composer c.
PromptActionIn(c) ==
  /\ CanCall(c, "action_proofread_cb")
  /\ inv[1].phase = "Idle"
  /\ \E k \in DOMAIN ui.windows[c].registered,
        o \in ReadOutcomes(ui, Deref(ui.g_action_context)) :
       /\ ui.windows[c].registered[k].activate = "action_proofread_cb"
       /\ IF o = "crash"
          THEN /\ ui' = [ui EXCEPT !.crashed = TRUE,
                           !.last = Callback(ui, ui, c, "prompt", NullPtr)]
               /\ inv' = inv
          ELSE LET ctx == ui.heap[Deref(ui.g_action_context)].context
               IN /\ inv' = [inv EXCEPT ![1] =
                               action_proofread_cb(
                                 @, Deref(ui.windows[c].registered[k].name), ctx)]
                  /\ ui' = [ui EXCEPT !.last =
                              Callback(ui, ui, c, "prompt", Deref(ctx).model)]
  /\ UNCHANGED <<fs, ext>>

\* The user activates a model action of composer c.
ModelActionIn(c) ==
  /\ CanCall(c, "action_select_model_cb")
  /\ \E k \in DOMAIN ui.windows[c].registered, io \in {"ok"},
        o \in ReadOutcomes(ui, Deref(ui.g_action_context)) :
       /\ ui.windows[c].registered[k].activate = "action_select_model_cb"
       /\ IF o = "crash"
          THEN /\ ui' = [ui EXCEPT !.crashed = TRUE,
                           !.last = Callback(ui, ui, c, "model", NullPtr)]
               /\ fs' = fs
          ELSE LET a == Deref(ui.g_action_context)
                   name == Deref(ui.windows[c].registered[k].name)
                   r == action_select_model_cb(ui.heap[a].context, fs, name, io)
                   v == [ui EXCEPT !.heap[a].context = r.context]
               IN /\ fs' = r.save.files
                  /\ ui' = [v EXCEPT !.last =
                              Callback(ui, v, c, "model",
                                       Ptr(SkipPrefix(name, "ai-model-")))]
  /\ UNCHANGED <<inv, ext>>

\* The user activates the dropdown of composer c.
DropdownIn(c) ==
  /\ CanCall(c, "action_dropdown_cb")
  /\ ui.menu = <<>>
  /\ \E o \in ReadOutcomes(ui, Deref(ui.g_action_context)) :
       IF o = "crash"
       THEN ui' = [ui EXCEPT !.crashed = TRUE,
                     !.last = Callback(ui, ui, c, "dropdown", NullPtr)]
       ELSE LET ctx == ui.heap[Deref(ui.g_action_context)].context
            IN ui' = [ui EXCEPT
                        !.menu = action_dropdown_cb(ctx),
                        !.picked = [via |-> "none", k |-> c, expect |-> NoArgs],
                        !.last = Callback(ui, ui, c, "dropdown", Deref(ctx).model)]
  /\ UNCHANGED <<inv, fs, ext>>

\* The user picks an item of the menu popped up in composer c.
MenuItemIn(c) ==
  /\ ~ui.crashed
  /\ ui.windows[c].phase = "open"
  /\ ui.g_action_context # NullPtr
  /\ ui.menu # <<>>
  /\ ui.picked.k = c
  /\ inv[1].phase = "Idle"
  /\ \E k \in DOMAIN ui.menu,
        o \in ReadOutcomes(ui, Deref(ui.g_action_context)) :
       IF o = "crash"
       THEN /\ ui' = [ui EXCEPT !.crashed = TRUE, !.menu = <<>>,
                        !.last = Callback(ui, ui, c, "item", NullPtr)]
            /\ inv' = inv
       ELSE LET ctx == ui.heap[Deref(ui.g_action_context)].context
            IN /\ inv' = [inv EXCEPT ![1] =
                            menu_item_activate_cb(@, ui.menu[k].prompt_id, ctx)]
               /\ ui' = [ui EXCEPT !.menu = <<>>,
                           !.last = Callback(ui, ui, c, "item", Deref(ctx).model)]
  /\ UNCHANGED <<fs, ext>>

MultiNext ==
  \E c \in Windows :
    \/ OpenComposer(c)
    \/ CloseOpenComposer(c)
    \/ PromptActionIn(c)
    \/ ModelActionIn(c)
    \/ DropdownIn(c)
    \/ MenuItemIn(c)

MultiSpec == MultiInit /\ [][MultiNext]_vars

\* C33: whenever an action callback (prompt action, dropdown, dropdown item,
\* model selection) runs in an open composer, the process-wide action
\* context it reads has not been freed, for every sequence of composer
\* creations and disposals.
C33_CallbackReadsLiveContext ==
  ui.last.kind # "none" => ~ui.last.freed

\* C34: with several composers open, an action triggered in a composer uses
\* that composer's own action context: a prompt action or dropdown item
\* starts its request with the model selected in the composer's own
\* context, and a model selection sets the model of the composer's own
\* context and changes no other context.
C34_ActionUsesOwnContext ==
  (ui.last.kind # "none" /\ ~ui.last.freed /\ ~ui.crashed) =>
    /\ ui.last.kind \in {"prompt", "item"} =>
         /\ ui.last.model = ui.last.ownBefore
         /\ Ptr(inv[1].args.model) = ui.last.ownBefore
    /\ ui.last.kind = "model" =>
         /\ ui.last.ownAfter = ui.last.model
         /\ ~ui.last.otherChanged

(***************************************************************************)
(* The identifiers of a built action set: create_prompt_entry,             *)
(* create_model_entry, m_ui_build_action_entries                           *)
(***************************************************************************)

\* Prompt objects by name: the names prompts.json may give are any strings,
\* here three, one of them "dropdown".
NamedPrompts ==
  {JsonObject({<<"name", JsonString(n)>>, <<"prompt", JsonString("Fix the text")>>}) :
     n \in {"fix", "short", "dropdown"}}

\* The model ids m_chatgpt_fetch_models may list: any strings, here the two
\* of ModelIds and "menu".
FetchedIds == ActionSuffixes
FetchedLists == UNION {[1..n -> FetchedIds] : n \in 0..MaxModels}

\* The caller makes the action context with the models the service listed.
NewActionContextFetched ==
  /\ ext.phase = "prompts-loaded"
  /\ ui.context = NullPtr
  /\ \E api_key \in {Ptr("sk-key")},
        model \in {NullPtr} \cup {Ptr(m) : m \in ModelIds},
        models \in FetchedLists :
       ui' = [ui EXCEPT !.context =
                Ptr(m_ui_action_context_new(ext.prompts, api_key, model, models))]
  /\ UNCHANGED <<inv, fs, ext>>

\* prompts.json is an array of up to MaxPrompts named prompts.
NamesInit ==
  /\ inv = [i \in Inv |-> IdleInvocation]
  /\ fs \in {[NoFiles EXCEPT !.prompts_json = JsonFile(JsonArray(es))] :
               es \in UNION {[1..n -> NamedPrompts] : n \in 0..MaxPrompts}}
  /\ ext = NoExtension
  /\ ui = NoUi

NamesNext == LoadPrompts \/ NewActionContextFetched \/ BuildActionEntries

NamesSpec == NamesInit /\ [][NamesNext]_vars

\* The identifiers of a built set by kind: of the prompt actions, of the
\* three structural actions and of the model actions.
PromptIdentifiers ==
  [k \in 1..NumPrompts |-> Deref(BuiltEntries[k].name)]
StructuralIdentifiers == {"ai-menu", "ai-proofread-dropdown", "ai-model-menu"}
ModelIdentifiers ==
  [k \in 1..NumModels |-> Deref(BuiltEntries[NumPrompts + 3 + k].name)]
PromptName(k) ==
  StringMember(json_array_get_object_element(Deref(ext.prompts), k), "name")

\* C35: in every built action set prompts with distinct names have distinct
\* identifiers, models with distinct ids have distinct identifiers, no
\* prompt or model identifier is a structural identifier (ai-menu,
\* ai-proofread-dropdown, ai-model-menu), and no prompt identifier is a
\* model identifier; so with distinct names and distinct ids the
\* identifiers of the set are pairwise distinct.
C35_IdentifiersPairwiseDistinct ==
  (ui.built /\ ui.entries # NullPtr) =>
    /\ \A j, k \in 1..NumPrompts :
         PromptName(j) # PromptName(k) => PromptIdentifiers[j] # PromptIdentifiers[k]
    /\ \A j, k \in 1..NumModels :
         Deref(ui.context).models[j] # Deref(ui.context).models[k]
           => ModelIdentifiers[j] # ModelIdentifiers[k]
    /\ \A k \in 1..NumPrompts : PromptIdentifiers[k] \notin StructuralIdentifiers
    /\ \A k \in 1..NumModels : ModelIdentifiers[k] \notin StructuralIdentifiers
    /\ \A j \in 1..NumPrompts, k \in 1..NumModels :
         PromptIdentifiers[j] # ModelIdentifiers[k]
    /\ ( /\ \A j, k \in 1..NumPrompts : j # k => PromptName(j) # PromptName(k)
         /\ \A j, k \in 1..NumModels :
              j # k => Deref(ui.context).models[j] # Deref(ui.context).models[k] )
       => \A j, k \in DOMAIN BuiltEntries :
            j # k => BuiltEntries[j].name # BuiltEntries[k].name

\* C36: the context of an invocation is never used after it has been freed:
\* neither the timer callback, nor the worker, nor the completion handler
\* has dereferenced it after g_free; once it is freed no timer source is
\* attached any more (the timer was removed first) and no task function is
\* still to run or to be completed (the worker is through with it), so
\* nothing is left that could read it.
C36_NoAccessAfterFree ==
  \A i \in Inv :
    LET s == inv[i] IN
    /\ s.afterFree = {}
    /\ s.mem = "freed" =>
         /\ s.source # "attached"
         /\ s.task \in {"none", "completed"}
         /\ s.phase \in Terminal

\* The timer fired, the worker read the context, the handler ran to its
\* end and freed it.
C36_Witness ==
  \E i \in Inv :
    /\ inv[i].mem = "freed"
    /\ inv[i].fired = "live"
    /\ inv[i].calls = 1
    /\ inv[i].task = "completed"
    /\ inv[i].afterFree = {}

\* The content source reported an error or returned no content hash.
RetrievalFailed(s) == s.delivered.kind \in {"error", "nohash"}

\* C37: an invocation whose content retrieval failed is over: no remote
\* call was made and no task started, no timer was armed, no wait dialog,
\* alert or notice was shown and nothing was inserted, and its context has
\* been freed (once).
C37_RetrievalFailureEndsQuietly ==
  \A i \in Inv :
    LET s == inv[i] IN
    RetrievalFailed(s) =>
      /\ s.phase = "ContentError"
      /\ s.calls = 0 /\ s.task = "none"
      /\ s.source = "none" /\ s.context.wait_timeout_id = 0
      /\ s.dialog = "none" /\ s.shows = 0
      /\ s.alerts = <<>> /\ s.notices = 0 /\ s.inserted = <<>>
      /\ s.mem = "freed" /\ s.frees = 1
      /\ s.afterFree = {}

C37_Witness ==
  \E i \in Inv :
    /\ inv[i].delivered.kind = "nohash"
    /\ inv[i].phase = "ContentError"
    /\ inv[i].mem = "freed"
    /\ inv[i].calls = 0
    /\ inv[i].source = "none"

(***************************************************************************)
(* Termination of an invocation                                            *)
(***************************************************************************)

\* The next event an invocation waits for: the content source calls back,
\* the remote call returns, the main loop dispatches the expired timeout or
\* the task's completion, or the user dismisses the "no response" notice.
Awaited(i) ==
  \/ ContentReady(i)
  \/ WorkerRun(i)
  \/ WaitTimeout(i)
  \/ TaskCompleted(i)
  \/ DismissNoResponse(i)

\* The event an invocation waits for does come.  Nothing says that time
\* passes before it or that the composer is closed.
Fairness == \A i \in Inv : WF_vars(Awaited(i))

LiveSpec == Init /\ [][Next]_vars /\ Fairness

\* The invocation is over and holds nothing: its context is freed, no
\* timer source is attached and no wait dialog is on the screen.
Released(s) ==
  /\ s.phase \in Terminal
  /\ s.mem = "freed"
  /\ s.source # "attached"
  /\ s.dialog # "shown"
  /\ s.context.wait_timeout_id = 0
  /\ ~s.context.wait_dialog

\* C38: every invocation that m_proofreader_start accepted (its arguments
\* were valid, the content was requested) eventually is over with its
\* context freed and neither a timer nor a wait dialog left, given that the
\* content callback is delivered, the remote call returns, the main loop
\* keeps dispatching and a "no response" notice is dismissed.
\* An invocation not accepted is Idle or Aborted, and an accepted one never
\* is again; so from some moment on the invocation is released for good.
C38_AcceptedInvocationIsReleased ==
  \A i \in Inv :
    <>[](inv[i].phase \in {"Idle", "Aborted"} \/ Released(inv[i]))

\* An invocation that waited, showed the wait dialog and then the
\* "no response" notice has ended released.
C38_Witness ==
  \E i \in Inv :
    /\ Released(inv[i])
    /\ inv[i].shows = 1
    /\ inv[i].notices = 1
    /\ inv[i].args.api_key # NULL

\* The timer of invocation i is armed in this step: a timeout source is
\* attached, or the handle of one is stored.
Armed(i) ==
  \/ inv'[i].source = "attached" /\ inv[i].source # "attached"
  \/ inv'[i].context.wait_timeout_id # 0 /\ inv[i].context.wait_timeout_id = 0

\* C39: in every state of an invocation the handle of the pending timer
\* (wait_timeout_id) and the handle of the shown dialog (wait_dialog) are
\* not both set; and the timer is armed only in the step that dispatches
\* the request, only when neither handle is set and no timer was armed
\* before, so at most once per invocation.
C39_HandlesExclusiveTimerArmedOnce ==
  /\ [](\A i \in Inv :
          ~(inv[i].context.wait_timeout_id # 0 /\ inv[i].context.wait_dialog))
  /\ [][\A i \in Inv :
          Armed(i) =>
            /\ inv[i].phase = "AwaitingContent"
            /\ inv'[i].phase = "Dispatched"
            /\ inv[i].context.wait_timeout_id = 0
            /\ ~inv[i].context.wait_dialog
            /\ inv[i].source = "none"
            /\ inv'[i].source = "attached"
            /\ inv'[i].context.wait_timeout_id # 0]_vars

\* The timer was armed at dispatch, has fired and has put up the dialog:
\* the dialog handle is set and the timer handle is not.
C39_Witness ==
  \E i \in Inv :
    /\ inv[i].phase = "Dispatched"
    /\ inv[i].context.wait_dialog
    /\ inv[i].context.wait_timeout_id = 0
    /\ inv[i].source = "removed"
====
